---- MODULE Spec2Model ----
(***************************************************************************)
(* Projection of a telemetry snapshot into Prometheus metric families, as  *)
(* implemented in src/src/common/metrics.rs.                                *)
(*                                                                         *)
(* Conventions of the model                                                *)
(*   Option<T>      : None is <<>>, Some(v) is <<v>>.                       *)
(*   Vec<T>         : a sequence.                                           *)
(*   HashMap<K, V>  : a sequence of <<key, value>> pairs with distinct     *)
(*                    keys; the order of the sequence is the iteration     *)
(*                    order of that map instance (unspecified in Rust, so  *)
(*                    every order is drawn).  replicate_states is only     *)
(*                    read through order-insensitive any()/count(), and is *)
(*                    a function from peer ids to replica states.           *)
(*   String         : a TLA+ string, except request endpoint keys, which   *)
(*                    are split and ordered bytewise and are sequences of  *)
(*                    byte codes.                                           *)
(*   f64            : integers stay integers (usize as f64 is exact below  *)
(*                    2^53); a value divided by 1_000_000.0 is the record  *)
(*                    [num |-> micros, den |-> 1000000].                    *)
(***************************************************************************)
EXTENDS Integers, Sequences, FiniteSets, TLC

VARIABLES
    telemetry,  \* the TelemetryData snapshot handed to new_from_telemetry
    prefix,     \* Option<&str>: the caller's metric-name prefix
    metrics,    \* Vec<MetricFamily>: the output list being built
    procfs,     \* Option<Result>: outcome of ProcFsMetrics::collect() once taken
    pc          \* position inside TelemetryData::add_metrics

vars == <<telemetry, prefix, metrics, procfs, pc>>

----------------------------------------------------------------------------
(* Option and small helpers *)

None == <<>>

Some(v) == <<v>>

IsSome(o) == Len(o) = 1

Min(a, b) == IF a <= b THEN a ELSE b

Max(a, b) == IF a >= b THEN a ELSE b

RECURSIVE SumSeq(_)
SumSeq(s) == IF s = <<>> THEN 0 ELSE s[1] + SumSeq(Tail(s))

RECURSIVE Concat(_)
Concat(ss) == IF ss = <<>> THEN <<>> ELSE ss[1] \o Concat(Tail(ss))

\* All sequences that enumerate the finite set S once each.
Perms(S) ==
    {s \in [1..Cardinality(S) -> S] : \A i, j \in 1..Cardinality(S) : i # j => s[i] # s[j]}

\* All sequences s of the length of sets with s[i] \in sets[i].
RECURSIVE SeqProduct(_)
SeqProduct(sets) ==
    IF sets = <<>> THEN {<<>>}
    ELSE {<<h>> \o t : h \in sets[1], t \in SeqProduct(Tail(sets))}

----------------------------------------------------------------------------
(* Metric primitives: metric_family, counter, gauge, histogram, label_pair *)

label_pair(name, value) == <<name, value>>

LabelsOf(labels) == [i \in 1..Len(labels) |-> label_pair(labels[i][1], labels[i][2])]

counter(value, labels) ==
    [label |-> LabelsOf(labels), kind |-> "counter", value |-> value]

gauge(value, labels) ==
    [label |-> LabelsOf(labels), kind |-> "gauge", value |-> value]

\* Mutant of histogram: the buckets are collected in reverse order.
histogram_rev(sample_count, sample_sum, buckets, labels) ==
    [label |-> LabelsOf(labels), kind |-> "histogram",
     sample_count |-> sample_count, sample_sum |-> sample_sum,
     bucket |-> [i \in 1..Len(buckets) |->
                    [upper_bound |-> buckets[Len(buckets) + 1 - i][1],
                     cumulative_count |-> buckets[Len(buckets) + 1 - i][2]]]]

histogram(sample_count, sample_sum, buckets, labels) ==
    [label |-> LabelsOf(labels), kind |-> "histogram",
     sample_count |-> sample_count, sample_sum |-> sample_sum,
     bucket |-> [i \in 1..Len(buckets) |->
                    [upper_bound |-> buckets[i][1], cumulative_count |-> buckets[i][2]]]]

metric_family(name, help, type, samples, pfx) ==
    [name |-> IF IsSome(pfx) THEN pfx[1] \o name ELSE name,
     help |-> help, type |-> type, metric |-> samples]

\* f64 / 1_000_000.0
Secs(micros) == [num |-> micros, den |-> 1000000]

\* u64/u16 to_string(): decimal digits, most significant first.
Digit == <<"0", "1", "2", "3", "4", "5", "6", "7", "8", "9">>

RECURSIVE to_string(_)
to_string(n) == IF n < 10 THEN Digit[n + 1] ELSE to_string(n \div 10) \o Digit[(n % 10) + 1]

----------------------------------------------------------------------------
(* Collection telemetry: replica states and the CollectionTelemetry accessors *)

\* collection::shards::replica_set::ReplicaState (the variants the model draws).
ReplicaState == {"Active", "Dead", "Resharding", "ReshardingScaleDown"}

\* ReplicaState::is_active
is_active(state) == state \in {"Active", "ReshardingScaleDown"}

\* CollectionTelemetry::count_optimizers_running
count_optimizers_running(collection) == collection.optimizers

\* CollectionTelemetry::count_points
count_points(collection) == collection.points

\* CollectionTelemetry::count_points_per_vector
count_points_per_vector(collection) == collection.vectors

\* usize::MAX, the "no minimum yet" sentinel (the largest integer TLC holds stands
\* for 2^64 - 1; every replica count of the model is far below it).
USIZE_MAX == 2147483647

\* collection.shards.iter().flatten()
ShardsOf(collection) == IF IsSome(collection.shards) THEN collection.shards[1] ELSE <<>>

\* Mutant of NotResharding: all() in place of any().
NotReshardingAll(shard) ==
    ~ \A peer \in DOMAIN shard.replicate_states :
          shard.replicate_states[peer] = "Resharding"

\* .filter(|shard| !shard.replicate_states.values().any(|i| matches!(i, Resharding)))
NotResharding(shard) ==
    ~ \E peer \in DOMAIN shard.replicate_states :
          shard.replicate_states[peer] = "Resharding"

\* .map(|shard| shard.replicate_states.values().filter(|s| s.is_active()).count())
ActiveReplicaCount(shard) ==
    Cardinality({peer \in DOMAIN shard.replicate_states :
                    is_active(shard.replicate_states[peer])})

\* itertools minmax(): NoElements, OneElement(x) or MinMax(min, max).
RECURSIVE MinMaxFold(_, _, _)
MinMaxFold(lo, hi, rest) ==
    IF rest = <<>> THEN [tag |-> "MinMax", min |-> lo, max |-> hi]
    ELSE MinMaxFold(Min(lo, rest[1]), Max(hi, rest[1]), Tail(rest))

minmax(counts) ==
    IF Len(counts) = 0 THEN [tag |-> "NoElements"]
    ELSE IF Len(counts) = 1 THEN [tag |-> "OneElement", one |-> counts[1]]
    ELSE MinMaxFold(Min(counts[1], counts[2]), Max(counts[1], counts[2]),
                    SubSeq(counts, 3, Len(counts)))

\* The per-collection min/max of active replicas: None, or Some(<<min, max>>).
min_max_active_replicas(collection) ==
    LET eligible == SelectSeq(ShardsOf(collection), NotResharding)
        counts == [i \in 1..Len(eligible) |-> ActiveReplicaCount(eligible[i])]
        result == minmax(counts)
    IN  IF result.tag = "NoElements" THEN None
        ELSE IF result.tag = "OneElement" THEN Some(<<result.one, result.one>>)
        ELSE Some(<<result.min, result.max>>)

\* .filter_map(|shard| shard.local.as_ref())
\* .filter_map(|local| local.indexed_only_excluded_vectors.as_ref()).flatten()
ExcludedEntries(collection) ==
    LET shards == ShardsOf(collection)
    IN  Concat([i \in 1..Len(shards) |->
            IF IsSome(shards[i].local)
               /\ IsSome(shards[i].local[1].indexed_only_excluded_vectors)
            THEN shards[i].local[1].indexed_only_excluded_vectors[1]
            ELSE <<>>])

\* Mutant of FoldExcluded: acc.insert(name, size) in place of `*entry += size`.
RECURSIVE FoldExcludedInsert(_, _)
FoldExcludedInsert(acc, entries) ==
    IF entries = <<>> THEN acc
    ELSE LET name == entries[1][1]
             size == entries[1][2]
         IN  FoldExcludedInsert(
                 [n \in DOMAIN acc \cup {name} |-> IF n = name THEN size ELSE acc[n]],
                 Tail(entries))

\* .fold(HashMap::default(), |mut acc, (name, size)| { *acc.entry(name).or_insert(0) += size; acc })
RECURSIVE FoldExcluded(_, _)
FoldExcluded(acc, entries) ==
    IF entries = <<>> THEN acc
    ELSE LET name == entries[1][1]
             size == entries[1][2]
         IN  FoldExcluded(
                 [n \in DOMAIN acc \cup {name} |->
                     (IF n \in DOMAIN acc THEN acc[n] ELSE 0) + (IF n = name THEN size ELSE 0)],
                 Tail(entries))

points_excluded_from_index_only(collection) ==
    FoldExcluded([n \in {} |-> 0], ExcludedEntries(collection))

\* The iteration orders the freshly built HashMap of one collection can have.
ExcludedOrders(entry) ==
    IF IsSome(entry) /\ entry[1].variant = "Full"
    THEN Perms(DOMAIN points_excluded_from_index_only(entry[1]))
    ELSE {<<>>}

\* Mutant of DeadShards: counts the non-active replicas instead of the shards having one.
DeadReplicas(collection) ==
    LET shards == ShardsOf(collection)
    IN  SumSeq([i \in 1..Len(shards) |->
            Cardinality({peer \in DOMAIN shards[i].replicate_states :
                            ~is_active(shards[i].replicate_states[peer])})])

\* .filter(|i| i.replicate_states.values().any(|state| !state.is_active())).count()
HasNonActiveReplica(shard) ==
    \E peer \in DOMAIN shard.replicate_states : ~is_active(shard.replicate_states[peer])

DeadShards(collection) == Len(SelectSeq(ShardsOf(collection), HasNonActiveReplica))

\* The accumulators before the loop over the collections.
AccInit ==
    [total_optimizations_running |-> 0,
     total_min_active_replicas |-> USIZE_MAX,
     total_max_active_replicas |-> 0,
     points_per_collection |-> <<>>,
     indexed_only_excluded |-> <<>>,
     total_dead_shards |-> 0,
     vector_count_by_name |-> <<>>]

\* Mutant of FoldMinMax: the collection's minimum overwrites the running minimum.
FoldMinMaxOverwrite(acc, mm) ==
    IF IsSome(mm)
    THEN [acc EXCEPT !.total_min_active_replicas = mm[1][1],
                     !.total_max_active_replicas = Max(@, mm[1][2])]
    ELSE acc

\* if let Some((min, max)) = min_max_active_replicas { total_min = total_min.min(min); ... }
FoldMinMax(acc, mm) ==
    IF IsSome(mm)
    THEN [acc EXCEPT !.total_min_active_replicas = Min(@, mm[1][1]),
                     !.total_max_active_replicas = Max(@, mm[1][2])]
    ELSE acc

\* One iteration of the loop body for a Full collection; order is the iteration order
\* of its points_excluded_from_index_only map.
FullBody(acc, collection, order) ==
    LET vectors == count_points_per_vector(collection)
        excluded == points_excluded_from_index_only(collection)
        a1 == [acc EXCEPT !.total_optimizations_running =
                              @ + count_optimizers_running(collection)]
        a2 == FoldMinMax(a1, min_max_active_replicas(collection))
    IN  [a2 EXCEPT
            !.points_per_collection =
                Append(@, gauge(count_points(collection), <<<<"id", collection.id>>>>)),
            !.vector_count_by_name =
                @ \o [i \in 1..Len(vectors) |->
                        gauge(vectors[i][2],
                              <<<<"collection", collection.id>>, <<"vector", vectors[i][1]>>>>)],
            !.indexed_only_excluded =
                @ \o [i \in 1..Len(order) |->
                        gauge(excluded[order[i]],
                              <<<<"id", collection.id>>, <<"vector", order[i]>>>>)],
            !.total_dead_shards = @ + DeadShards(collection)]

\* for collection in self.collections.iter().flatten() { match collection { Full(c) => c,
\* Aggregated(_) => continue } ... }
LoopBody(acc, entry, order) ==
    IF ~IsSome(entry) THEN acc
    ELSE IF entry[1].variant = "Aggregated" THEN acc
    ELSE FullBody(acc, entry[1], order)

\* Mutant of CollectionsLoop: an Aggregated entry ends the loop (break for continue).
RECURSIVE CollectionsLoopBreak(_, _, _)
CollectionsLoopBreak(acc, entries, orders) ==
    IF entries = <<>> THEN acc
    ELSE IF IsSome(entries[1]) /\ entries[1][1].variant = "Aggregated" THEN acc
    ELSE CollectionsLoopBreak(LoopBody(acc, entries[1], orders[1]),
                              Tail(entries), Tail(orders))

RECURSIVE CollectionsLoop(_, _, _)
CollectionsLoop(acc, entries, orders) ==
    IF entries = <<>> THEN acc
    ELSE CollectionsLoop(LoopBody(acc, entries[1], orders[1]), Tail(entries), Tail(orders))

\* Mutant of ReportedMin: the sentinel is reported as it is.
ReportedMinRaw(total_min) == total_min

\* let total_min_active_replicas = if total_min_active_replicas == usize::MAX { 0 } else { .. }
ReportedMin(total_min) == IF total_min = USIZE_MAX THEN 0 ELSE total_min

\* CollectionsTelemetry::add_metrics: the families it pushes, in order.
CollectionsFamilies(c, pfx, orders) ==
    LET acc == CollectionsLoop(AccInit, c.collections, orders)
    IN  <<metric_family("collections_total", "number of collections", "GAUGE",
                        <<gauge(c.number_of_collections, <<>>)>>, pfx)>>
        \o (IF acc.vector_count_by_name # <<>>
            THEN <<metric_family("collection_vectors_total",
                                 "amount of vectors grouped by vector name", "GAUGE",
                                 acc.vector_count_by_name, pfx)>>
            ELSE <<>>)
        \o (IF acc.indexed_only_excluded # <<>>
            THEN <<metric_family("collection_indexed_only_excluded_points",
                                 "amount of points excluded in indexed_only requests", "GAUGE",
                                 acc.indexed_only_excluded, pfx)>>
            ELSE <<>>)
        \o <<metric_family("active_replicas_min",
                           "minimum number of active replicas across all shards", "GAUGE",
                           <<gauge(ReportedMin(acc.total_min_active_replicas), <<>>)>>, pfx),
             metric_family("active_replicas_max",
                           "maximum number of active replicas across all shards", "GAUGE",
                           <<gauge(acc.total_max_active_replicas, <<>>)>>, pfx),
             metric_family("optimizer_running_processes",
                           "number of currently running optimization processes", "GAUGE",
                           <<gauge(acc.total_optimizations_running, <<>>)>>, pfx)>>
        \o (IF acc.points_per_collection # <<>>
            THEN <<metric_family("collection_points",
                                 "approximate amount of points per collection", "GAUGE",
                                 acc.points_per_collection, pfx)>>
            ELSE <<>>)
        \o <<metric_family("dead_shards_total",
                           "total amount of shard replicas in non-active state", "GAUGE",
                           <<gauge(acc.total_dead_shards, <<>>)>>, pfx)>>

\* Every combination of iteration orders of the per-collection excluded-points maps.
CollectionsOrders(c) ==
    SeqProduct([i \in 1..Len(c.collections) |-> ExcludedOrders(c.collections[i])])

----------------------------------------------------------------------------
(* Application, cluster and memory projectors *)

\* AppFeaturesTelemetry::add_metrics
AppFeaturesFamilies(f, pfx) ==
    <<metric_family("app_status_recovery_mode", "features enabled in qdrant server", "GAUGE",
                    <<gauge(IF f.recovery_mode THEN 1 ELSE 0, <<>>)>>, pfx)>>

\* Mutant of AppFamilies: absent features are projected as AppFeaturesTelemetry::default().
AppFamiliesDefaultFeatures(app, pfx) ==
    <<metric_family("app_info", "information about qdrant server", "GAUGE",
                    <<gauge(1, <<<<"name", app.name>>, <<"version", app.version>>>>)>>, pfx)>>
    \o AppFeaturesFamilies(IF IsSome(app.features) THEN app.features[1]
                           ELSE [recovery_mode |-> FALSE], pfx)

\* AppBuildTelemetry::add_metrics
AppFamilies(app, pfx) ==
    <<metric_family("app_info", "information about qdrant server", "GAUGE",
                    <<gauge(1, <<<<"name", app.name>>, <<"version", app.version>>>>)>>, pfx)>>
    \o (IF IsSome(app.features) THEN AppFeaturesFamilies(app.features[1], pfx) ELSE <<>>)

\* Mutant of ClusterStatusFamilies: the pending-operations gauge is pushed outside the
\* `if let Some(peer_id)` block.
ClusterStatusFamiliesSplit(status, pfx) ==
    <<metric_family("cluster_peers_total", "total number of cluster peers", "GAUGE",
                    <<gauge(status.number_of_peers, <<>>)>>, pfx),
      metric_family("cluster_term", "current cluster term", "COUNTER",
                    <<counter(status.term, <<>>)>>, pfx)>>
    \o (IF IsSome(status.peer_id)
        THEN <<metric_family("cluster_commit",
                   "index of last committed (finalized) operation cluster peer is aware of",
                   "COUNTER",
                   <<counter(status.commit, <<<<"peer_id", to_string(status.peer_id[1])>>>>)>>,
                   pfx)>>
        ELSE <<>>)
    \o <<metric_family("cluster_pending_operations_total",
                       "total number of pending operations for cluster peer", "GAUGE",
                       <<gauge(status.pending_operations, <<>>)>>, pfx)>>
    \o (IF IsSome(status.peer_id)
        THEN <<metric_family("cluster_voter", "is cluster peer a voter or learner", "GAUGE",
                   <<gauge(IF status.is_voter THEN 1 ELSE 0, <<>>)>>, pfx)>>
        ELSE <<>>)

\* ClusterStatusTelemetry::add_metrics
ClusterStatusFamilies(status, pfx) ==
    <<metric_family("cluster_peers_total", "total number of cluster peers", "GAUGE",
                    <<gauge(status.number_of_peers, <<>>)>>, pfx),
      metric_family("cluster_term", "current cluster term", "COUNTER",
                    <<counter(status.term, <<>>)>>, pfx)>>
    \o (IF IsSome(status.peer_id)
        THEN <<metric_family("cluster_commit",
                   "index of last committed (finalized) operation cluster peer is aware of",
                   "COUNTER",
                   <<counter(status.commit, <<<<"peer_id", to_string(status.peer_id[1])>>>>)>>,
                   pfx),
               metric_family("cluster_pending_operations_total",
                   "total number of pending operations for cluster peer", "GAUGE",
                   <<gauge(status.pending_operations, <<>>)>>, pfx),
               metric_family("cluster_voter", "is cluster peer a voter or learner", "GAUGE",
                   <<gauge(IF status.is_voter THEN 1 ELSE 0, <<>>)>>, pfx)>>
        ELSE <<>>)

\* ClusterTelemetry::add_metrics
ClusterFamilies(cluster, pfx) ==
    <<metric_family("cluster_enabled", "is cluster support enabled", "GAUGE",
                    <<gauge(IF cluster.enabled THEN 1 ELSE 0, <<>>)>>, pfx)>>
    \o (IF IsSome(cluster.status) THEN ClusterStatusFamilies(cluster.status[1], pfx) ELSE <<>>)

\* MemoryTelemetry::add_metrics
MemoryFamilies(mem, pfx) ==
    <<metric_family("memory_active_bytes",
          "Total number of bytes in active pages allocated by the application", "GAUGE",
          <<gauge(mem.active_bytes, <<>>)>>, pfx),
      metric_family("memory_allocated_bytes",
          "Total number of bytes allocated by the application", "GAUGE",
          <<gauge(mem.allocated_bytes, <<>>)>>, pfx),
      metric_family("memory_metadata_bytes",
          "Total number of bytes dedicated to metadata", "GAUGE",
          <<gauge(mem.metadata_bytes, <<>>)>>, pfx),
      metric_family("memory_resident_bytes",
          "Maximum number of bytes in physically resident data pages mapped", "GAUGE",
          <<gauge(mem.resident_bytes, <<>>)>>, pfx),
      metric_family("memory_retained_bytes",
          "Total number of bytes in virtual memory mappings", "GAUGE",
          <<gauge(mem.retained_bytes, <<>>)>>, pfx)>>

----------------------------------------------------------------------------
(* Endpoint whitelists and the request projectors *)

REST_ENDPOINT_WHITELIST ==
    LET collections_name == <<47, 99, 111, 108, 108, 101, 99, 116, 105, 111, 110, 115, 47, 123, 110, 97, 109, 101, 125>>  \* "/collections/{name}"
        index == <<47, 105, 110, 100, 101, 120>>  \* "/index"
        points == <<47, 112, 111, 105, 110, 116, 115>>  \* "/points"
        batch == <<47, 98, 97, 116, 99, 104>>  \* "/batch"
        count == <<47, 99, 111, 117, 110, 116>>  \* "/count"
        delete == <<47, 100, 101, 108, 101, 116, 101>>  \* "/delete"
        discover == <<47, 100, 105, 115, 99, 111, 118, 101, 114>>  \* "/discover"
        facet == <<47, 102, 97, 99, 101, 116>>  \* "/facet"
        payload == <<47, 112, 97, 121, 108, 111, 97, 100>>  \* "/payload"
        clear == <<47, 99, 108, 101, 97, 114>>  \* "/clear"
        query == <<47, 113, 117, 101, 114, 121>>  \* "/query"
        groups == <<47, 103, 114, 111, 117, 112, 115>>  \* "/groups"
        recommend == <<47, 114, 101, 99, 111, 109, 109, 101, 110, 100>>  \* "/recommend"
        scroll == <<47, 115, 99, 114, 111, 108, 108>>  \* "/scroll"
        search == <<47, 115, 101, 97, 114, 99, 104>>  \* "/search"
        matrix == <<47, 109, 97, 116, 114, 105, 120>>  \* "/matrix"
        offsets == <<47, 111, 102, 102, 115, 101, 116, 115>>  \* "/offsets"
        pairs == <<47, 112, 97, 105, 114, 115>>  \* "/pairs"
        vectors == <<47, 118, 101, 99, 116, 111, 114, 115>>  \* "/vectors"
    IN  <<
        collections_name \o index,
        collections_name \o points,
        collections_name \o points \o batch,
        collections_name \o points \o count,
        collections_name \o points \o delete,
        collections_name \o points \o discover,
        collections_name \o points \o discover \o batch,
        collections_name \o points \o facet,
        collections_name \o points \o payload,
        collections_name \o points \o payload \o clear,
        collections_name \o points \o payload \o delete,
        collections_name \o points \o query,
        collections_name \o points \o query \o batch,
        collections_name \o points \o query \o groups,
        collections_name \o points \o recommend,
        collections_name \o points \o recommend \o batch,
        collections_name \o points \o recommend \o groups,
        collections_name \o points \o scroll,
        collections_name \o points \o search,
        collections_name \o points \o search \o batch,
        collections_name \o points \o search \o groups,
        collections_name \o points \o search \o matrix \o offsets,
        collections_name \o points \o search \o matrix \o pairs,
        collections_name \o points \o vectors,
        collections_name \o points \o vectors \o delete
    >>

\* Mutant of GRPC_ENDPOINT_WHITELIST: SearchBatch is listed before Search.
GRPC_ENDPOINT_WHITELIST_Unsorted ==
    <<
        <<47, 113, 100, 114, 97, 110, 116, 46, 80, 111, 105, 110, 116, 115, 47, 67, 108, 101, 97, 114, 80, 97, 121, 108, 111, 97, 100>>,  \* "/qdrant.Points/ClearPayload"
        <<47, 113, 100, 114, 97, 110, 116, 46, 80, 111, 105, 110, 116, 115, 47, 67, 111, 117, 110, 116>>,  \* "/qdrant.Points/Count"
        <<47, 113, 100, 114, 97, 110, 116, 46, 80, 111, 105, 110, 116, 115, 47, 68, 101, 108, 101, 116, 101>>,  \* "/qdrant.Points/Delete"
        <<47, 113, 100, 114, 97, 110, 116, 46, 80, 111, 105, 110, 116, 115, 47, 68, 101, 108, 101, 116, 101, 80, 97, 121, 108, 111, 97, 100>>,  \* "/qdrant.Points/DeletePayload"
        <<47, 113, 100, 114, 97, 110, 116, 46, 80, 111, 105, 110, 116, 115, 47, 68, 105, 115, 99, 111, 118, 101, 114>>,  \* "/qdrant.Points/Discover"
        <<47, 113, 100, 114, 97, 110, 116, 46, 80, 111, 105, 110, 116, 115, 47, 68, 105, 115, 99, 111, 118, 101, 114, 66, 97, 116, 99, 104>>,  \* "/qdrant.Points/DiscoverBatch"
        <<47, 113, 100, 114, 97, 110, 116, 46, 80, 111, 105, 110, 116, 115, 47, 70, 97, 99, 101, 116>>,  \* "/qdrant.Points/Facet"
        <<47, 113, 100, 114, 97, 110, 116, 46, 80, 111, 105, 110, 116, 115, 47, 71, 101, 116>>,  \* "/qdrant.Points/Get"
        <<47, 113, 100, 114, 97, 110, 116, 46, 80, 111, 105, 110, 116, 115, 47, 79, 118, 101, 114, 119, 114, 105, 116, 101, 80, 97, 121, 108, 111, 97, 100>>,  \* "/qdrant.Points/OverwritePayload"
        <<47, 113, 100, 114, 97, 110, 116, 46, 80, 111, 105, 110, 116, 115, 47, 81, 117, 101, 114, 121>>,  \* "/qdrant.Points/Query"
        <<47, 113, 100, 114, 97, 110, 116, 46, 80, 111, 105, 110, 116, 115, 47, 81, 117, 101, 114, 121, 66, 97, 116, 99, 104>>,  \* "/qdrant.Points/QueryBatch"
        <<47, 113, 100, 114, 97, 110, 116, 46, 80, 111, 105, 110, 116, 115, 47, 81, 117, 101, 114, 121, 71, 114, 111, 117, 112, 115>>,  \* "/qdrant.Points/QueryGroups"
        <<47, 113, 100, 114, 97, 110, 116, 46, 80, 111, 105, 110, 116, 115, 47, 82, 101, 99, 111, 109, 109, 101, 110, 100>>,  \* "/qdrant.Points/Recommend"
        <<47, 113, 100, 114, 97, 110, 116, 46, 80, 111, 105, 110, 116, 115, 47, 82, 101, 99, 111, 109, 109, 101, 110, 100, 66, 97, 116, 99, 104>>,  \* "/qdrant.Points/RecommendBatch"
        <<47, 113, 100, 114, 97, 110, 116, 46, 80, 111, 105, 110, 116, 115, 47, 82, 101, 99, 111, 109, 109, 101, 110, 100, 71, 114, 111, 117, 112, 115>>,  \* "/qdrant.Points/RecommendGroups"
        <<47, 113, 100, 114, 97, 110, 116, 46, 80, 111, 105, 110, 116, 115, 47, 83, 99, 114, 111, 108, 108>>,  \* "/qdrant.Points/Scroll"
        <<47, 113, 100, 114, 97, 110, 116, 46, 80, 111, 105, 110, 116, 115, 47, 83, 101, 97, 114, 99, 104, 66, 97, 116, 99, 104>>,  \* "/qdrant.Points/SearchBatch"
        <<47, 113, 100, 114, 97, 110, 116, 46, 80, 111, 105, 110, 116, 115, 47, 83, 101, 97, 114, 99, 104>>,  \* "/qdrant.Points/Search"
        <<47, 113, 100, 114, 97, 110, 116, 46, 80, 111, 105, 110, 116, 115, 47, 83, 101, 97, 114, 99, 104, 71, 114, 111, 117, 112, 115>>,  \* "/qdrant.Points/SearchGroups"
        <<47, 113, 100, 114, 97, 110, 116, 46, 80, 111, 105, 110, 116, 115, 47, 83, 101, 116, 80, 97, 121, 108, 111, 97, 100>>,  \* "/qdrant.Points/SetPayload"
        <<47, 113, 100, 114, 97, 110, 116, 46, 80, 111, 105, 110, 116, 115, 47, 85, 112, 100, 97, 116, 101, 66, 97, 116, 99, 104>>,  \* "/qdrant.Points/UpdateBatch"
        <<47, 113, 100, 114, 97, 110, 116, 46, 80, 111, 105, 110, 116, 115, 47, 85, 112, 100, 97, 116, 101, 86, 101, 99, 116, 111, 114, 115>>,  \* "/qdrant.Points/UpdateVectors"
        <<47, 113, 100, 114, 97, 110, 116, 46, 80, 111, 105, 110, 116, 115, 47, 85, 112, 115, 101, 114, 116>>  \* "/qdrant.Points/Upsert"
    >>

GRPC_ENDPOINT_WHITELIST ==
    LET qdrant_points == <<47, 113, 100, 114, 97, 110, 116, 46, 80, 111, 105, 110, 116, 115, 47>>  \* "/qdrant.Points/"
        Clear == <<67, 108, 101, 97, 114>>  \* "Clear"
        Payload == <<80, 97, 121, 108, 111, 97, 100>>  \* "Payload"
        Count == <<67, 111, 117, 110, 116>>  \* "Count"
        Delete == <<68, 101, 108, 101, 116, 101>>  \* "Delete"
        Discover == <<68, 105, 115, 99, 111, 118, 101, 114>>  \* "Discover"
        Batch == <<66, 97, 116, 99, 104>>  \* "Batch"
        Facet == <<70, 97, 99, 101, 116>>  \* "Facet"
        Get == <<71, 101, 116>>  \* "Get"
        Overwrite == <<79, 118, 101, 114, 119, 114, 105, 116, 101>>  \* "Overwrite"
        Query == <<81, 117, 101, 114, 121>>  \* "Query"
        Groups == <<71, 114, 111, 117, 112, 115>>  \* "Groups"
        Recommend == <<82, 101, 99, 111, 109, 109, 101, 110, 100>>  \* "Recommend"
        Scroll == <<83, 99, 114, 111, 108, 108>>  \* "Scroll"
        Search == <<83, 101, 97, 114, 99, 104>>  \* "Search"
        Set == <<83, 101, 116>>  \* "Set"
        Update == <<85, 112, 100, 97, 116, 101>>  \* "Update"
        Vectors == <<86, 101, 99, 116, 111, 114, 115>>  \* "Vectors"
        Upsert == <<85, 112, 115, 101, 114, 116>>  \* "Upsert"
    IN  <<
        qdrant_points \o Clear \o Payload,
        qdrant_points \o Count,
        qdrant_points \o Delete,
        qdrant_points \o Delete \o Payload,
        qdrant_points \o Discover,
        qdrant_points \o Discover \o Batch,
        qdrant_points \o Facet,
        qdrant_points \o Get,
        qdrant_points \o Overwrite \o Payload,
        qdrant_points \o Query,
        qdrant_points \o Query \o Batch,
        qdrant_points \o Query \o Groups,
        qdrant_points \o Recommend,
        qdrant_points \o Recommend \o Batch,
        qdrant_points \o Recommend \o Groups,
        qdrant_points \o Scroll,
        qdrant_points \o Search,
        qdrant_points \o Search \o Batch,
        qdrant_points \o Search \o Groups,
        qdrant_points \o Set \o Payload,
        qdrant_points \o Update \o Batch,
        qdrant_points \o Update \o Vectors,
        qdrant_points \o Upsert
    >>

\* For REST requests, only report timings when having this HTTP response status.
REST_TIMINGS_FOR_STATUS == 200

\* Ord for str: bytewise lexicographic comparison.
RECURSIVE StrCmp(_, _)
StrCmp(a, b) ==
    IF a = <<>> /\ b = <<>> THEN "Equal"
    ELSE IF a = <<>> THEN "Less"
    ELSE IF b = <<>> THEN "Greater"
    ELSE IF a[1] < b[1] THEN "Less"
    ELSE IF a[1] > b[1] THEN "Greater"
    ELSE StrCmp(Tail(a), Tail(b))

\* slice::binary_search over [left, right): TRUE for Ok(_), FALSE for Err(_).
RECURSIVE BinarySearchFrom(_, _, _, _)
BinarySearchFrom(list, key, left, right) ==
    IF left >= right THEN FALSE
    ELSE LET mid == left + ((right - left) \div 2)
             cmp == StrCmp(list[mid + 1], key)
         IN  IF cmp = "Equal" THEN TRUE
             ELSE IF cmp = "Less" THEN BinarySearchFrom(list, key, mid + 1, right)
             ELSE BinarySearchFrom(list, key, left, mid)

\* Mutant of binary_search: the last element of the list is never probed.
binary_search_short(list, key) == BinarySearchFrom(list, key, 0, Len(list) - 1)

\* WHITELIST.binary_search(&endpoint).is_ok()
binary_search(list, key) == BinarySearchFrom(list, key, 0, Len(list))

\* str::split_once(' '): None, or Some(<<before, after>>) around the first space.
split_once(key) ==
    LET spaces == {i \in 1..Len(key) : key[i] = 32}
    IN  IF spaces = {} THEN None
        ELSE LET at == CHOOSE i \in spaces : \A j \in spaces : i <= j
             IN  Some(<<SubSeq(key, 1, at - 1), SubSeq(key, at + 1, Len(key))>>)

\* OperationDurationMetricsBuilder::default()
BuilderDefault ==
    [total |-> <<>>, fail_total |-> <<>>, avg_secs |-> <<>>, min_secs |-> <<>>,
     max_secs |-> <<>>, duration_histogram_secs |-> <<>>]

\* Option::unwrap_or / unwrap_or_default
unwrap_or(o, default) == IF IsSome(o) THEN o[1] ELSE default

\* Mutant of BuilderAdd: the fail sample is appended only when the fail count is present.
BuilderAddFailIfPresent(b, stat, labels, add_timings) ==
    LET counted == [b EXCEPT
            !.total = Append(@, counter(stat.count, labels)),
            !.fail_total = IF IsSome(stat.fail_count)
                           THEN Append(@, counter(stat.fail_count[1], labels))
                           ELSE @]
    IN  IF ~add_timings THEN counted
        ELSE [counted EXCEPT
            !.avg_secs = Append(@, gauge(Secs(unwrap_or(stat.avg_duration_micros, 0)), labels)),
            !.min_secs = Append(@, gauge(Secs(unwrap_or(stat.min_duration_micros, 0)), labels)),
            !.max_secs = Append(@, gauge(Secs(unwrap_or(stat.max_duration_micros, 0)), labels)),
            !.duration_histogram_secs =
                Append(@, histogram(
                    stat.count,
                    Secs(unwrap_or(stat.total_duration_micros, 0)),
                    [i \in 1..Len(stat.duration_micros_histogram) |->
                        <<Secs(stat.duration_micros_histogram[i][1]),
                          stat.duration_micros_histogram[i][2]>>],
                    labels))]

\* OperationDurationMetricsBuilder::add
BuilderAdd(b, stat, labels, add_timings) ==
    LET counted == [b EXCEPT
            !.total = Append(@, counter(stat.count, labels)),
            !.fail_total = Append(@, counter(unwrap_or(stat.fail_count, 0), labels))]
    IN  IF ~add_timings THEN counted
        ELSE [counted EXCEPT
            !.avg_secs = Append(@, gauge(Secs(unwrap_or(stat.avg_duration_micros, 0)), labels)),
            !.min_secs = Append(@, gauge(Secs(unwrap_or(stat.min_duration_micros, 0)), labels)),
            !.max_secs = Append(@, gauge(Secs(unwrap_or(stat.max_duration_micros, 0)), labels)),
            !.duration_histogram_secs =
                Append(@, histogram(
                    stat.count,
                    Secs(unwrap_or(stat.total_duration_micros, 0)),
                    [i \in 1..Len(stat.duration_micros_histogram) |->
                        <<Secs(stat.duration_micros_histogram[i][1]),
                          stat.duration_micros_histogram[i][2]>>],
                    labels))]

\* let prefix = global_prefix.map(|g| format!("{g}{prefix}_")).unwrap_or_else(|| prefix.to_string())
BuildPrefix(global_prefix, pfx) ==
    IF IsSome(global_prefix) THEN global_prefix[1] \o pfx \o "_" ELSE pfx

\* Mutant of PushNonEmpty: the family is pushed whatever its samples.
PushAlways(name, help, type, samples, p) ==
    <<metric_family(name, help, type, samples, p)>>

\* if !samples.is_empty() { metrics.push(metric_family(name, help, type, samples, p)) }
PushNonEmpty(name, help, type, samples, p) ==
    IF samples # <<>> THEN <<metric_family(name, help, type, samples, p)>> ELSE <<>>

\* OperationDurationMetricsBuilder::build
BuilderBuild(b, global_prefix, pfx) ==
    LET p == Some(BuildPrefix(global_prefix, pfx))
    IN  PushNonEmpty("responses_total", "total number of responses", "COUNTER", b.total, p)
        \o PushNonEmpty("responses_fail_total", "total number of failed responses",
                        "COUNTER", b.fail_total, p)
        \o PushNonEmpty("responses_avg_duration_seconds", "average response duration",
                        "GAUGE", b.avg_secs, p)
        \o PushNonEmpty("responses_min_duration_seconds", "minimum response duration",
                        "GAUGE", b.min_secs, p)
        \o PushNonEmpty("responses_max_duration_seconds", "maximum response duration",
                        "GAUGE", b.max_secs, p)
        \o PushNonEmpty("responses_duration_seconds", "response duration histogram",
                        "HISTOGRAM", b.duration_histogram_secs, p)

\* Mutant of RestAddTimings: timings for every 2xx status.
RestAddTimingsSuccess(status) == status \div 100 = 2

\* *status == REST_TIMINGS_FOR_STATUS
RestAddTimings(status) == status = REST_TIMINGS_FOR_STATUS

\* for (status, stats) in responses { builder.add(stats, labels, add_timings) }
RECURSIVE RestStatusLoop(_, _, _, _)
RestStatusLoop(b, method, endpoint, responses) ==
    IF responses = <<>> THEN b
    ELSE LET status == responses[1][1]
             stats == responses[1][2]
         IN  RestStatusLoop(
                 BuilderAdd(b, stats,
                            <<<<"method", method>>, <<"endpoint", endpoint>>,
                              <<"status", to_string(status)>>>>,
                            RestAddTimings(status)),
                 method, endpoint, Tail(responses))

\* Endpoint must be whitelisted (REST)
RestWhitelisted(endpoint) == binary_search(REST_ENDPOINT_WHITELIST, endpoint)

\* One iteration of the loop over WebApiTelemetry.responses.
RestBody(b, key, responses) ==
    LET split == split_once(key)
    IN  IF ~IsSome(split) THEN b
        ELSE IF ~RestWhitelisted(split[1][2]) THEN b
        ELSE RestStatusLoop(b, split[1][1], split[1][2], responses)

RECURSIVE RestLoop(_, _)
RestLoop(b, entries) ==
    IF entries = <<>> THEN b
    ELSE RestLoop(RestBody(b, entries[1][1], entries[1][2]), Tail(entries))

\* WebApiTelemetry::add_metrics
WebApiFamilies(rest, pfx) ==
    BuilderBuild(RestLoop(BuilderDefault, rest.responses), pfx, "rest")

\* Endpoint must be whitelisted (gRPC)
GrpcWhitelisted(endpoint) == binary_search(GRPC_ENDPOINT_WHITELIST, endpoint)

\* One iteration of the loop over GrpcTelemetry.responses.
GrpcBody(b, endpoint, stats) ==
    IF ~GrpcWhitelisted(endpoint) THEN b
    ELSE BuilderAdd(b, stats, <<<<"endpoint", endpoint>>>>, TRUE)

RECURSIVE GrpcLoop(_, _)
GrpcLoop(b, entries) ==
    IF entries = <<>> THEN b
    ELSE GrpcLoop(GrpcBody(b, entries[1][1], entries[1][2]), Tail(entries))

\* GrpcTelemetry::add_metrics
GrpcFamilies(grpc, pfx) ==
    BuilderBuild(GrpcLoop(BuilderDefault, grpc.responses), pfx, "grpc")

\* RequestsTelemetry::add_metrics
RequestsFamilies(requests, pfx) ==
    WebApiFamilies(requests.rest, pfx) \o GrpcFamilies(requests.grpc, pfx)

----------------------------------------------------------------------------
(* Hardware and procfs projectors *)

\* HardwareTelemetry::make_metric_counters; field names the counter the closure reads.
make_metric_counters(hw, field) ==
    [i \in 1..Len(hw.collection_data) |->
        counter(hw.collection_data[i][2][field], <<<<"id", hw.collection_data[i][1]>>>>)]

\* The seven pushes of HardwareTelemetry::add_metrics.
HardwareCounters(hw, pfx) ==
    <<metric_family("collection_hardware_metric_cpu", "CPU measurements of a collection",
          "COUNTER", make_metric_counters(hw, "cpu"), pfx),
      metric_family("collection_hardware_metric_payload_io_read",
          "Total IO payload read metrics of a collection",
          "COUNTER", make_metric_counters(hw, "payload_io_read"), pfx),
      metric_family("collection_hardware_metric_payload_index_io_read",
          "Total IO payload index read metrics of a collection",
          "COUNTER", make_metric_counters(hw, "payload_index_io_read"), pfx),
      metric_family("collection_hardware_metric_payload_index_io_write",
          "Total IO payload index write metrics of a collection",
          "COUNTER", make_metric_counters(hw, "payload_index_io_write"), pfx),
      metric_family("collection_hardware_metric_payload_io_write",
          "Total IO payload write metrics of a collection",
          "COUNTER", make_metric_counters(hw, "payload_io_write"), pfx),
      metric_family("collection_hardware_metric_vector_io_read",
          "Total IO vector read metrics of a collection",
          "COUNTER", make_metric_counters(hw, "vector_io_read"), pfx),
      metric_family("collection_hardware_metric_vector_io_write",
          "Total IO vector write metrics of a collection",
          "COUNTER", make_metric_counters(hw, "vector_io_write"), pfx)>>

\* Mutant of HardwareFamilies: no early return on an empty map.
HardwareFamiliesUnguarded(hw, pfx) == HardwareCounters(hw, pfx)

\* HardwareTelemetry::add_metrics
HardwareFamilies(hw, pfx) ==
    IF hw.collection_data = <<>> THEN <<>> ELSE HardwareCounters(hw, pfx)

\* ProcFsMetrics::add_metrics
ProcFsFamilies(p, pfx) ==
    <<metric_family("procfs_mmap_count", "count of open mmaps", "GAUGE",
          <<gauge(p.mmap_count, <<>>)>>, pfx),
      metric_family("procfs_current_fds", "count of currently open file descriptors", "GAUGE",
          <<gauge(p.open_fds, <<>>)>>, pfx),
      metric_family("procfs_soft_limit_fds", "soft limit for open file descriptors", "GAUGE",
          <<gauge(p.max_fds_soft, <<>>)>>, pfx),
      metric_family("procfs_hard_limit_fds", "hard limit for open file descriptors", "GAUGE",
          <<gauge(p.max_fds_hard, <<>>)>>, pfx),
      metric_family("procfs_minor_page_faults",
          "count of minor page faults which didn't cause a disk access", "GAUGE",
          <<gauge(p.minor_page_faults, <<>>)>>, pfx),
      metric_family("procfs_major_page_faults",
          "count of disk accesses caused by a mmap page fault", "GAUGE",
          <<gauge(p.major_page_faults, <<>>)>>, pfx),
      metric_family("procfs_children_minor_page_faults",
          "count of minor page faults caused by waited-for children", "GAUGE",
          <<gauge(p.minor_children_page_faults, <<>>)>>, pfx),
      metric_family("procfs_children_major_page_faults",
          "count of major page faults caused by waited-for children", "GAUGE",
          <<gauge(p.major_children_page_faults, <<>>)>>, pfx)>>

----------------------------------------------------------------------------
(* TelemetryData::add_metrics, one step per provider it calls, in order *)

\* self.app.add_metrics(metrics, prefix)
AppAddMetrics ==
    /\ pc = "app"
    /\ metrics' = metrics \o AppFamilies(telemetry.app, prefix)
    /\ pc' = "collections"
    /\ UNCHANGED <<telemetry, prefix, procfs>>

\* self.collections.add_metrics(metrics, prefix)
CollectionsAddMetrics ==
    /\ pc = "collections"
    /\ \E orders \in CollectionsOrders(telemetry.collections) :
          metrics' = metrics \o CollectionsFamilies(telemetry.collections, prefix, orders)
    /\ pc' = "cluster"
    /\ UNCHANGED <<telemetry, prefix, procfs>>

\* if let Some(cluster) = &self.cluster { cluster.add_metrics(metrics, prefix) }
ClusterAddMetrics ==
    /\ pc = "cluster"
    /\ metrics' = IF IsSome(telemetry.cluster)
                  THEN metrics \o ClusterFamilies(telemetry.cluster[1], prefix)
                  ELSE metrics
    /\ pc' = "requests"
    /\ UNCHANGED <<telemetry, prefix, procfs>>

\* if let Some(requests) = &self.requests { requests.add_metrics(metrics, prefix) }
RequestsAddMetrics ==
    /\ pc = "requests"
    /\ metrics' = IF IsSome(telemetry.requests)
                  THEN metrics \o RequestsFamilies(telemetry.requests[1], prefix)
                  ELSE metrics
    /\ pc' = "hardware"
    /\ UNCHANGED <<telemetry, prefix, procfs>>

\* if let Some(hardware) = &self.hardware { hardware.add_metrics(metrics, prefix) }
HardwareAddMetrics ==
    /\ pc = "hardware"
    /\ metrics' = IF IsSome(telemetry.hardware)
                  THEN metrics \o HardwareFamilies(telemetry.hardware[1], prefix)
                  ELSE metrics
    /\ pc' = "memory"
    /\ UNCHANGED <<telemetry, prefix, procfs>>

\* Mutant of MemoryAddMetrics: an absent subtree is projected as MemoryTelemetry::default().
MemoryAddMetricsOrDefault ==
    /\ pc = "memory"
    /\ metrics' = metrics \o MemoryFamilies(
                      unwrap_or(telemetry.memory,
                                [active_bytes |-> 0, allocated_bytes |-> 0, metadata_bytes |-> 0,
                                 resident_bytes |-> 0, retained_bytes |-> 0]), prefix)
    /\ pc' = "procfs"
    /\ UNCHANGED <<telemetry, prefix, procfs>>

\* if let Some(mem) = &self.memory { mem.add_metrics(metrics, prefix) }
MemoryAddMetrics ==
    /\ pc = "memory"
    /\ metrics' = IF IsSome(telemetry.memory)
                  THEN metrics \o MemoryFamilies(telemetry.memory[1], prefix)
                  ELSE metrics
    /\ pc' = "procfs"
    /\ UNCHANGED <<telemetry, prefix, procfs>>

\* What ProcFsMetrics::collect() can return: Err(_), or Ok(the process statistics).
ProcFsResults ==
    {[ok |-> FALSE],
     [ok |-> TRUE,
      stats |-> [mmap_count |-> 12, open_fds |-> 7, max_fds_soft |-> 1024,
                 max_fds_hard |-> 0, minor_page_faults |-> 5, major_page_faults |-> 1,
                 minor_children_page_faults |-> 3, major_children_page_faults |-> 2]]}

\* Mutant of ProcFsAddMetrics: the error of collect() is propagated and the output is lost.
ProcFsAddMetricsAbort ==
    /\ pc = "procfs"
    /\ \E result \in ProcFsResults :
          /\ procfs' = Some(result)
          /\ metrics' = IF result.ok
                        THEN metrics \o ProcFsFamilies(result.stats, prefix)
                        ELSE <<>>
    /\ pc' = "done"
    /\ UNCHANGED <<telemetry, prefix>>

\* match ProcFsMetrics::collect() { Ok(p) => p.add_metrics(metrics, prefix), Err(err) => warn }
ProcFsAddMetrics ==
    /\ pc = "procfs"
    /\ \E result \in ProcFsResults :
          /\ procfs' = Some(result)
          /\ metrics' = IF result.ok
                        THEN metrics \o ProcFsFamilies(result.stats, prefix)
                        ELSE metrics
    /\ pc' = "done"
    /\ UNCHANGED <<telemetry, prefix>>

Next ==
    \/ AppAddMetrics
    \/ CollectionsAddMetrics
    \/ ClusterAddMetrics
    \/ RequestsAddMetrics
    \/ HardwareAddMetrics
    \/ MemoryAddMetrics
    \/ ProcFsAddMetrics

\* TelemetryData::add_metrics as one function: the families it pushes, in order, for the
\* iteration orders of the collections projector and the result of ProcFsMetrics::collect().
add_metrics(t, pfx, orders, result) ==
    AppFamilies(t.app, pfx)
    \o CollectionsFamilies(t.collections, pfx, orders)
    \o (IF IsSome(t.cluster) THEN ClusterFamilies(t.cluster[1], pfx) ELSE <<>>)
    \o (IF IsSome(t.requests) THEN RequestsFamilies(t.requests[1], pfx) ELSE <<>>)
    \o (IF IsSome(t.hardware) THEN HardwareFamilies(t.hardware[1], pfx) ELSE <<>>)
    \o (IF IsSome(t.memory) THEN MemoryFamilies(t.memory[1], pfx) ELSE <<>>)
    \o (IF result.ok THEN ProcFsFamilies(result.stats, pfx) ELSE <<>>)

----------------------------------------------------------------------------
(* Snapshots the projection is run on *)

\* Total number of shards in a snapshot's collections.
MaxShards == 2

\* Ids of the collection entries, by position; a snapshot has at most this many entries.
CollectionIds == <<"A", "B">>

\* Peer sets a shard's replicate_states map can have.
PeerSets == {{}, {1}, {1, 2}}

ReplicaMaps == UNION {[peers -> ReplicaState] : peers \in PeerSets}

AppTelemetry(recovery) ==
    [name |-> "qdrant", version |-> "1.15.0", features |-> recovery]

TelemetryData(app, entries, cluster, requests, hardware, memory) ==
    [app |-> app,
     collections |-> [number_of_collections |-> Len(entries), collections |-> entries],
     cluster |-> cluster, requests |-> requests, hardware |-> hardware, memory |-> memory]

FullCollection(i, vectors, shards) ==
    [variant |-> "Full", id |-> CollectionIds[i], optimizers |-> i, points |-> 10 * i,
     vectors |-> vectors, shards |-> shards]

AggregatedCollection(i) == [variant |-> "Aggregated", id |-> CollectionIds[i]]

ShardTelemetry(replicate_states, local) ==
    [replicate_states |-> replicate_states, local |-> local]

\* Entry i of a snapshot with exactly k shards, every replica map drawn, no local detail.
ReplicaEntries(i, k) ==
    IF k = 0
    THEN {None, Some(AggregatedCollection(i)), Some(FullCollection(i, <<>>, None)),
          Some(FullCollection(i, <<>>, Some(<<>>)))}
    ELSE {Some(FullCollection(i, <<>>,
                   Some([j \in 1..k |-> ShardTelemetry(maps[j], None)]))) :
             maps \in [1..k -> ReplicaMaps]}

\* count_points_per_vector() results a collection is drawn with.
VectorCounts == {<<>>, <<<<"dense", 3>>, <<"sparse", 4>>>>}

\* shard.local values: absent, without the excluded-vectors map, or with one.
LocalDetails ==
    {None, Some([indexed_only_excluded_vectors |-> None])}
    \cup {Some([indexed_only_excluded_vectors |-> Some(excluded)]) :
             excluded \in {<<<<"dense", 1>>>>,
                           <<<<"dense", 1>>, <<"sparse", 2>>>>,
                           <<<<"sparse", 2>>, <<"dense", 5>>>>}}

\* Shards that vary the local detail, over two replica maps.
DetailShards ==
    {ShardTelemetry(states, local) :
        states \in {<<"Active">>, <<"Dead", "Resharding">>}, local \in LocalDetails}

\* Entry i of a snapshot with exactly k shards, the vector counts and local details drawn.
DetailEntries(i, k) ==
    IF k = 0
    THEN {None, Some(AggregatedCollection(i))}
         \cup {Some(FullCollection(i, vectors, shards)) :
                  vectors \in VectorCounts, shards \in {None, Some(<<>>)}}
    ELSE {Some(FullCollection(i, vectors, Some(shards))) :
             vectors \in VectorCounts, shards \in [1..k -> DetailShards]}

\* A snapshot with these collection entries and no optional subtree.
CollectionsOnly(entries) ==
    TelemetryData(AppTelemetry(Some([recovery_mode |-> FALSE])), entries,
                  None, None, None, None)

Start ==
    /\ metrics = <<>>
    /\ procfs = None
    /\ pc = "app"

\* Snapshots of at most Len(CollectionIds) = 2 entries and at most MaxShards shards in
\* all, entry i with k shards drawn from EntrySet(i, k).
CollectionSnapshots(EntrySet(_, _)) ==
    /\ \/ telemetry = CollectionsOnly(<<>>)
       \/ \E k1 \in 0..MaxShards : \E e1 \in EntrySet(1, k1) :
             telemetry = CollectionsOnly(<<e1>>)
       \/ \E k1 \in 0..MaxShards : \E k2 \in 0..(MaxShards - k1) :
             \E e1 \in EntrySet(1, k1) : \E e2 \in EntrySet(2, k2) :
                 telemetry = CollectionsOnly(<<e1, e2>>)
    /\ prefix = None
    /\ Start

\* Snapshots that vary the replica states of the shards.
InitReplicas == CollectionSnapshots(ReplicaEntries)

SpecReplicas == InitReplicas /\ [][Next]_vars

\* Snapshots that vary the kinds of the entries, the vector counts and the local details.
InitCollections == CollectionSnapshots(DetailEntries)

SpecCollections == InitCollections /\ [][Next]_vars

----------------------------------------------------------------------------
(* Request, hardware, cluster and memory subtrees the projection is run on *)

\* Number of endpoints in a request map with several endpoints.
MaxEndpoints == 2

\* Number of collections in the hardware map.
MaxHardware == 2

Range(list) == {list[i] : i \in 1..Len(list)}

DropLast(str) == SubSeq(str, 1, Len(str) - 1)

\* OperationDurationStatistics records: one with every optional field absent and no
\* bucket, one with every field present.
StatsBare ==
    [count |-> 5, fail_count |-> None, avg_duration_micros |-> None,
     min_duration_micros |-> None, max_duration_micros |-> None,
     total_duration_micros |-> None, duration_micros_histogram |-> <<>>]

StatsTimed ==
    [count |-> 7, fail_count |-> Some(2), avg_duration_micros |-> Some(2500000),
     min_duration_micros |-> Some(1000), max_duration_micros |-> Some(9000000),
     total_duration_micros |-> Some(17500000),
     duration_micros_histogram |-> <<<<1000, 3>>, <<1000000, 7>>>>]

StatsSet == {StatsBare, StatsTimed}

Statuses == {200, 201, 404}

\* Status maps of one endpoint: at most two statuses, any statistics, either order.
StatusMaps ==
    {<<>>}
    \cup {<<<<status, stats>>>> : status \in Statuses, stats \in StatsSet}
    \cup {map \in [1..2 -> Statuses \X StatsSet] : map[1][1] # map[2][1]}

SmallStatusMaps ==
    {<<>>, <<<<200, StatsTimed>>>>, <<<<404, StatsBare>>>>,
     <<<<201, StatsBare>>, <<200, StatsTimed>>>>}

BytesGET == <<71, 69, 84>>  \* "GET"

BytesPOST == <<80, 79, 83, 84>>  \* "POST"

Space == <<32>>  \* " "

Slash == <<47>>  \* "/"

BytesTelemetry == <<47, 116, 101, 108, 101, 109, 101, 116, 114, 121>>  \* "/telemetry"

BytesCollections == <<47, 99, 111, 108, 108, 101, 99, 116, 105, 111, 110, 115>>  \* "/collections"

BytesListCollections == <<47, 113, 100, 114, 97, 110, 116, 46, 67, 111, 108, 108, 101, 99, 116, 105, 111, 110, 115, 47, 76, 105, 115, 116>>  \* "/qdrant.Collections/List"

\* Paths around the REST whitelist: every entry, every entry cut short by one byte or
\* extended by "/", and paths below and above all entries.
RestPaths ==
    Range(REST_ENDPOINT_WHITELIST)
    \cup {DropLast(w) : w \in Range(REST_ENDPOINT_WHITELIST)}
    \cup {w \o Slash : w \in Range(REST_ENDPOINT_WHITELIST)}
    \cup {<<>>, Slash, BytesCollections, BytesTelemetry}

SearchPath == REST_ENDPOINT_WHITELIST[19]  \* "/collections/{name}/points/search"

\* Endpoint keys of the REST map: "GET <path>" for every path, and keys with no space,
\* an empty method, two spaces, or a space only after the path.
RestKeys ==
    {BytesGET \o Space \o path : path \in RestPaths}
    \cup {<<>>, BytesGET, SearchPath, Space \o SearchPath,
          BytesGET \o Space \o Space \o SearchPath,
          SearchPath \o Space \o BytesGET,
          BytesPOST \o Space \o SearchPath}

SmallRestKeys ==
    {BytesGET \o Space \o SearchPath, BytesPOST \o Space \o SearchPath,
     BytesGET \o Space \o REST_ENDPOINT_WHITELIST[Len(REST_ENDPOINT_WHITELIST)],
     BytesGET \o Space \o BytesTelemetry, BytesGET}

DistinctKeys(map) == \A i, j \in 1..Len(map) : i # j => map[i][1] # map[j][1]

\* REST response maps: one endpoint with any key and status map, or up to MaxEndpoints
\* endpoints over the small sets, in every iteration order.
RestMaps ==
    {<<<<key, statuses>>>> : key \in RestKeys, statuses \in StatusMaps}
    \cup UNION {{map \in [1..n -> SmallRestKeys \X SmallStatusMaps] : DistinctKeys(map)} :
                   n \in 0..MaxEndpoints}

RestSmall == {<<>>, <<<<BytesGET \o Space \o SearchPath, <<<<200, StatsTimed>>>>>>>>}

\* Methods around the gRPC whitelist.
GrpcKeys ==
    Range(GRPC_ENDPOINT_WHITELIST)
    \cup {DropLast(w) : w \in Range(GRPC_ENDPOINT_WHITELIST)}
    \cup {w \o Slash : w \in Range(GRPC_ENDPOINT_WHITELIST)}
    \cup {<<>>, Slash, BytesListCollections}

SearchMethod == GRPC_ENDPOINT_WHITELIST[17]  \* "/qdrant.Points/Search"

SmallGrpcKeys ==
    {SearchMethod, GRPC_ENDPOINT_WHITELIST[1],
     GRPC_ENDPOINT_WHITELIST[Len(GRPC_ENDPOINT_WHITELIST)], BytesListCollections}

GrpcMaps ==
    {<<<<key, stats>>>> : key \in GrpcKeys, stats \in StatsSet}
    \cup UNION {{map \in [1..n -> SmallGrpcKeys \X StatsSet] : DistinctKeys(map)} :
                   n \in 0..MaxEndpoints}

GrpcSmall == {<<>>, <<<<SearchMethod, StatsTimed>>>>}

RequestsTelemetry(rest, grpc) ==
    [rest |-> [responses |-> rest], grpc |-> [responses |-> grpc]]

Prefixes == {None, Some("qdrant_")}

\* Snapshots that vary the request maps: every REST map beside a small gRPC map, and
\* every gRPC map beside a small REST map.
InitRequests ==
    /\ \E maps \in (RestMaps \X GrpcSmall) \cup (RestSmall \X GrpcMaps) :
          telemetry = TelemetryData(AppTelemetry(Some([recovery_mode |-> FALSE])), <<>>,
                                    None, Some(RequestsTelemetry(maps[1], maps[2])),
                                    None, None)
    /\ prefix \in Prefixes
    /\ Start

SpecRequests == InitRequests /\ [][Next]_vars

\* REST maps of one endpoint, whitelisted or not, with every status map.
DurationRestMaps ==
    {<<>>}
    \cup {<<<<key, statuses>>>> :
             key \in {BytesGET \o Space \o SearchPath, BytesGET \o Space \o BytesTelemetry},
             statuses \in StatusMaps}

\* gRPC maps of up to MaxEndpoints methods, whitelisted or not, with any statistics, in
\* every iteration order.
DurationGrpcMaps ==
    UNION {{map \in [1..n -> {SearchMethod, GRPC_ENDPOINT_WHITELIST[1], BytesListCollections}
                               \X StatsSet] : DistinctKeys(map)} :
              n \in 0..MaxEndpoints}

\* Snapshots that vary the duration statistics: every status map of one REST endpoint
\* beside every gRPC map.
InitDurations ==
    /\ \E rest \in DurationRestMaps : \E grpc \in DurationGrpcMaps :
          telemetry = TelemetryData(AppTelemetry(Some([recovery_mode |-> FALSE])), <<>>,
                                    None, Some(RequestsTelemetry(rest, grpc)),
                                    None, None)
    /\ prefix \in Prefixes
    /\ Start

SpecDurations == InitDurations /\ [][Next]_vars

HardwareIds == {"A", "B", "C"}

\* HardwareUsage of a collection: seven distinct counters, or all zero as in
\* HardwareUsage::default().
HardwareUsage(id) ==
    LET scale == IF id = "A" THEN 1 ELSE IF id = "B" THEN 10 ELSE 0
    IN  [cpu |-> 1 * scale, payload_io_read |-> 2 * scale, payload_io_write |-> 3 * scale,
         payload_index_io_read |-> 4 * scale, payload_index_io_write |-> 5 * scale,
         vector_io_read |-> 6 * scale, vector_io_write |-> 7 * scale]

\* Hardware maps of at most MaxHardware collections, in every iteration order.
HardwareMaps ==
    UNION {{[i \in 1..n |-> <<ids[i], HardwareUsage(ids[i])>>] :
               ids \in {f \in [1..n -> HardwareIds] : \A i, j \in 1..n : i # j => f[i] # f[j]}} :
              n \in 0..MaxHardware}

HardwareOptions == {None} \cup {Some([collection_data |-> map]) : map \in HardwareMaps}

AppOptions == {None, Some([recovery_mode |-> FALSE]), Some([recovery_mode |-> TRUE])}

CollectionOptions ==
    {<<>>,
     <<Some(FullCollection(1, <<<<"dense", 3>>>>,
                           Some(<<ShardTelemetry(<<"Active">>, None)>>)))>>}

ClusterStatus(peer_id) ==
    [number_of_peers |-> 3, term |-> 4, commit |-> 17, pending_operations |-> 2,
     peer_id |-> peer_id, is_voter |-> TRUE]

ClusterOptions ==
    {None,
     Some([enabled |-> FALSE, status |-> None]),
     Some([enabled |-> TRUE, status |-> Some(ClusterStatus(None))]),
     Some([enabled |-> TRUE, status |-> Some(ClusterStatus(Some(1001)))])}

\* Request subtrees: absent, empty, every endpoint filtered out, an endpoint without
\* statuses, an endpoint that failed only, and one answered endpoint per protocol.
RequestOptions ==
    {None,
     Some(RequestsTelemetry(<<>>, <<>>)),
     Some(RequestsTelemetry(<<<<BytesGET \o Space \o BytesTelemetry, <<<<200, StatsTimed>>>>>>>>,
                            <<<<BytesListCollections, StatsTimed>>>>)),
     Some(RequestsTelemetry(<<<<BytesGET \o Space \o SearchPath, <<>>>>>>, <<>>)),
     Some(RequestsTelemetry(<<<<BytesGET \o Space \o SearchPath, <<<<404, StatsBare>>>>>>>>,
                            <<>>)),
     Some(RequestsTelemetry(<<<<BytesGET \o Space \o SearchPath, <<<<200, StatsTimed>>>>>>>>,
                            <<<<SearchMethod, StatsTimed>>>>))}

MemoryOptions ==
    {None,
     Some([active_bytes |-> 11, allocated_bytes |-> 12, metadata_bytes |-> 13,
           resident_bytes |-> 14, retained_bytes |-> 15])}

\* Snapshots that vary every subtree, each over a few values, and the hardware map over
\* all of HardwareMaps.
Init ==
    /\ \E app \in AppOptions : \E entries \in CollectionOptions :
       \E cluster \in ClusterOptions : \E requests \in RequestOptions :
       \E hardware \in HardwareOptions : \E memory \in MemoryOptions :
          telemetry = TelemetryData(AppTelemetry(app), entries, cluster, requests,
                                    hardware, memory)
    /\ prefix \in Prefixes
    /\ Start

Spec == Init /\ [][Next]_vars

----------------------------------------------------------------------------
(* Vocabulary of the properties: what the output says, and what the snapshot *)
(* holds, stated without the projector's own definitions                     *)

\* The name a family with this base name has under the caller's prefix.
Named(base) == IF IsSome(prefix) THEN prefix[1] \o base ELSE base

\* Positions in the output of the families with this name.
FamilyIndexes(ms, name) == {i \in 1..Len(ms) : ms[i].name = name}

\* The output ms holds exactly one family of this name, a gauge with the single
\* unlabeled sample v.
SingleGaugeIn(ms, name, v) ==
    /\ Cardinality(FamilyIndexes(ms, name)) = 1
    /\ \A i \in FamilyIndexes(ms, name) :
          /\ ms[i].type = "GAUGE"
          /\ ms[i].metric = <<[label |-> <<>>, kind |-> "gauge", value |-> v]>>

SingleGauge(base, v) == SingleGaugeIn(metrics, Named(base), v)

Entries == telemetry.collections.collections

\* Positions of the Full entries of a list of collection entries.
FullIn(entries) ==
    {i \in 1..Len(entries) : entries[i] # <<>> /\ entries[i][1].variant = "Full"}

\* The shards of entry i (none when its shard list is absent).
ShardsIn(entries, i) ==
    IF entries[i][1].shards = <<>> THEN <<>> ELSE entries[i][1].shards[1]

\* <<i, j>>: shard j of Full entry i.
AllShards(entries) ==
    {ij \in (1..Len(entries)) \X (1..MaxShards + 1) :
        ij[1] \in FullIn(entries) /\ ij[2] <= Len(ShardsIn(entries, ij[1]))}

StatesOf(entries, ij) == ShardsIn(entries, ij[1])[ij[2]].replicate_states

HasResharding(states) == \E peer \in DOMAIN states : states[peer] = "Resharding"

\* Shards that take part in the min/max: those of Full entries without a Resharding replica.
EligibleShards(entries) ==
    {ij \in AllShards(entries) : ~HasResharding(StatesOf(entries, ij))}

\* Replicas of a state map that are Active or ReshardingScaleDown.
ActiveIn(states) ==
    Cardinality({peer \in DOMAIN states :
                    states[peer] = "Active" \/ states[peer] = "ReshardingScaleDown"})

EligibleCounts(entries) ==
    {ActiveIn(StatesOf(entries, ij)) : ij \in EligibleShards(entries)}

Least(S) == CHOOSE m \in S : \A x \in S : m <= x

Greatest(S) == CHOOSE m \in S : \A x \in S : m >= x

\* The entries without shard j of entry i.
WithoutShard(entries, i, j) ==
    LET old == ShardsIn(entries, i)
        new == SubSeq(old, 1, j - 1) \o SubSeq(old, j + 1, Len(old))
    IN  [entries EXCEPT ![i] = <<[@[1] EXCEPT !.shards = <<new>>]>>]

\* The families of this name in an output.
FamiliesIn(ms, name) == {ms[i] : i \in FamilyIndexes(ms, name)}

\* The collections projector, run on other entries, emits the same active_replicas_min
\* and active_replicas_max families as the output holds.
SameMinMax(entries) ==
    LET c == [number_of_collections |-> Len(entries), collections |-> entries]
    IN  \A orders \in CollectionsOrders(c) :
            LET out == CollectionsFamilies(c, prefix, orders)
            IN  \A base \in {"active_replicas_min", "active_replicas_max"} :
                    /\ FamiliesIn(metrics, Named(base)) # {}
                    /\ FamiliesIn(out, Named(base)) = FamiliesIn(metrics, Named(base))

KeepsShard(shard) == ~HasResharding(shard.replicate_states)

\* The entries without any shard that holds a Resharding replica.
WithoutResharding(entries) ==
    [i \in 1..Len(entries) |->
        IF i \in FullIn(entries) /\ entries[i][1].shards # <<>>
        THEN <<[entries[i][1] EXCEPT !.shards = <<SelectSeq(@[1], KeepsShard)>>]>>
        ELSE entries[i]]

----------------------------------------------------------------------------
(* Properties of the collection aggregator *)

\* C1: a shard with at least one Resharding replica does not move the active-replica
\* minimum or maximum: the snapshot without any one such shard, and the snapshot without
\* all of them, give the same two reported values as the snapshot itself (so the
\* snapshots with and without such a shard always agree).
ReshardingShardIgnored ==
    pc = "done" =>
        /\ \A ij \in AllShards(Entries) :
               HasResharding(StatesOf(Entries, ij))
                   => SameMinMax(WithoutShard(Entries, ij[1], ij[2]))
        /\ SameMinMax(WithoutResharding(Entries))

\* C1 witness: the projection is done on a snapshot where a shard with one Resharding
\* and one Active replica sits beside a shard with two active replicas, and the
\* reported minimum is 2.
ReshardingShardIgnoredWitness ==
    /\ pc = "done"
    /\ SingleGauge("active_replicas_min", 2)
    /\ \E ij \in AllShards(Entries) :
          /\ HasResharding(StatesOf(Entries, ij))
          /\ ActiveIn(StatesOf(Entries, ij)) = 1

\* C2: when no shard is eligible, the minimum is reported as 0, never as the usize::MAX
\* sentinel, and the maximum as 0.
NoEligibleShardReportsZero ==
    pc = "done" =>
        /\ ~SingleGauge("active_replicas_min", USIZE_MAX)
        /\ EligibleShards(Entries) = {}
               => /\ SingleGauge("active_replicas_min", 0)
                  /\ SingleGauge("active_replicas_max", 0)

\* C2 witness: the projection is done on a snapshot whose only shards all hold a
\* Resharding replica, one of them next to an Active replica.
NoEligibleShardWitness ==
    /\ pc = "done"
    /\ EligibleShards(Entries) = {}
    /\ \E ij \in AllShards(Entries) : ActiveIn(StatesOf(Entries, ij)) = 1
    /\ SingleGauge("active_replicas_min", 0)

\* C3: with at least one eligible shard, the reported minimum and maximum are the least
\* and the greatest number of Active or ReshardingScaleDown replicas over all eligible
\* shards of all Full collections.
MinMaxOverEligibleShards ==
    (pc = "done" /\ EligibleShards(Entries) # {}) =>
        /\ SingleGauge("active_replicas_min", Least(EligibleCounts(Entries)))
        /\ SingleGauge("active_replicas_max", Greatest(EligibleCounts(Entries)))

\* C3 witness: two Full collections each hold an eligible shard, the first with two
\* active replicas (one ReshardingScaleDown) and the second with one; 1 and 2 are reported.
MinMaxOverEligibleShardsWitness ==
    /\ pc = "done"
    /\ \E a, b \in EligibleShards(Entries) :
          /\ a[1] < b[1]
          /\ ActiveIn(StatesOf(Entries, a)) = 2
          /\ \E peer \in DOMAIN StatesOf(Entries, a) :
                StatesOf(Entries, a)[peer] = "ReshardingScaleDown"
          /\ ActiveIn(StatesOf(Entries, b)) = 1
    /\ SingleGauge("active_replicas_min", 1)
    /\ SingleGauge("active_replicas_max", 2)

\* Shards with at least one replica that is neither Active nor ReshardingScaleDown.
DeadShardSet(entries) ==
    {ij \in AllShards(entries) :
        ActiveIn(StatesOf(entries, ij)) < Cardinality(DOMAIN StatesOf(entries, ij))}

CollectionFamilyNames ==
    {"collections_total", "collection_vectors_total",
     "collection_indexed_only_excluded_points", "active_replicas_min",
     "active_replicas_max", "optimizer_running_processes", "collection_points",
     "dead_shards_total"}

IsFullEntry(entry) == entry # <<>> /\ entry[1].variant = "Full"

\* The snapshot's collections with every None and Aggregated entry removed.
FullEntriesOnly ==
    [telemetry.collections EXCEPT !.collections = SelectSeq(@, IsFullEntry)]

\* One sample per Full entry, in entry order: its point count labeled with its id.
ExpectedPointSamples ==
    LET full == FullEntriesOnly.collections
    IN  [k \in 1..Len(full) |->
            [label |-> <<<<"id", full[k][1].id>>>>, kind |-> "gauge",
             value |-> full[k][1].points]]

\* C5: None and Aggregated entries contribute to no aggregate: collection_points holds
\* exactly one sample per Full entry (its id, its point count) and none for any other
\* entry, and every family of the collections projector is the one the projector emits
\* for the snapshot without its None and Aggregated entries.
OnlyFullEntriesAggregated ==
    pc = "done" =>
        /\ IF ExpectedPointSamples = <<>>
           THEN FamilyIndexes(metrics, Named("collection_points")) = {}
           ELSE /\ Cardinality(FamilyIndexes(metrics, Named("collection_points"))) = 1
                /\ \A i \in FamilyIndexes(metrics, Named("collection_points")) :
                      metrics[i].metric = ExpectedPointSamples
        /\ \E orders \in CollectionsOrders(FullEntriesOnly) :
              LET out == CollectionsFamilies(FullEntriesOnly, prefix, orders)
              IN  \A base \in CollectionFamilyNames :
                      FamiliesIn(metrics, Named(base)) = FamiliesIn(out, Named(base))

\* C5 witness: the projection is done on <<Full "A" with 10 points, Aggregated "B">>,
\* where "A" has vector counts and a shard with excluded vectors; collection_points
\* holds the single sample id=A, value 10.
OnlyFullEntriesAggregatedWitness ==
    /\ pc = "done"
    /\ Len(Entries) = 2
    /\ IsFullEntry(Entries[1])
    /\ Entries[2] # <<>> /\ Entries[2][1].variant = "Aggregated"
    /\ Entries[1][1].vectors # <<>>
    /\ FamilyIndexes(metrics, Named("collection_indexed_only_excluded_points")) # {}
    /\ \E i \in FamilyIndexes(metrics, Named("collection_points")) :
          metrics[i].metric =
              <<[label |-> <<<<"id", "A">>>>, kind |-> "gauge", value |-> 10]>>

----------------------------------------------------------------------------
(* Properties of the request projectors *)

RestResponses ==
    IF IsSome(telemetry.requests) THEN telemetry.requests[1].rest.responses ELSE <<>>

GrpcResponses ==
    IF IsSome(telemetry.requests) THEN telemetry.requests[1].grpc.responses ELSE <<>>

\* Name of a family the duration builder emits for a protocol.
RequestFamily(proto, base) ==
    IF IsSome(prefix) THEN prefix[1] \o proto \o "_" \o base ELSE proto \o base

TimingBases ==
    {"responses_avg_duration_seconds", "responses_min_duration_seconds",
     "responses_max_duration_seconds", "responses_duration_seconds"}

\* Positions <<family, sample>> in the output of the samples of the families with this
\* name that carry exactly these labels.
SamplesWith(name, labels) ==
    UNION {{<<i, k>> : k \in {n \in 1..Len(metrics[i].metric) :
                                 metrics[i].metric[n].label = labels}} :
              i \in FamilyIndexes(metrics, name)}

HasSpace(key) == \E i \in 1..Len(key) : key[i] = 32

FirstSpace(key) == CHOOSE i \in 1..Len(key) : key[i] = 32 /\ \A j \in 1..(i - 1) : key[j] # 32

MethodOf(key) == SubSeq(key, 1, FirstSpace(key) - 1)

PathOf(key) == SubSeq(key, FirstSpace(key) + 1, Len(key))

\* Membership by inspection of every entry.
Listed(list, endpoint) == \E i \in 1..Len(list) : list[i] = endpoint

RestKeyListed(key) == HasSpace(key) /\ Listed(REST_ENDPOINT_WHITELIST, PathOf(key))

StatusText == (200 :> "200") @@ (201 :> "201") @@ (404 :> "404")

RestLabels(key, status) ==
    <<<<"method", MethodOf(key)>>, <<"endpoint", PathOf(key)>>,
      <<"status", StatusText[status]>>>>

\* C6: when the projection is done, every status of every whitelisted REST endpoint has
\* exactly one sample with its (method, endpoint, status) labels in responses_total and
\* one in responses_fail_total; in each of the average, minimum, maximum and histogram
\* families it has exactly one when the status is 200 and none otherwise.
RestTimingsOnlyFor200 ==
    pc = "done" =>
        \A e \in 1..Len(RestResponses) :
            RestKeyListed(RestResponses[e][1]) =>
                \A r \in 1..Len(RestResponses[e][2]) :
                    LET status == RestResponses[e][2][r][1]
                        labels == RestLabels(RestResponses[e][1], status)
                    IN  /\ Cardinality(SamplesWith(
                               RequestFamily("rest", "responses_total"), labels)) = 1
                        /\ Cardinality(SamplesWith(
                               RequestFamily("rest", "responses_fail_total"), labels)) = 1
                        /\ \A base \in TimingBases :
                              Cardinality(SamplesWith(RequestFamily("rest", base), labels))
                                  = IF status = 200 THEN 1 ELSE 0

\* A whitelisted endpoint answered with 201 and with 200: both statuses are counted, only
\* the 200 has an average.
RestTimingsOnlyFor200Witness ==
    /\ pc = "done"
    /\ \E e \in 1..Len(RestResponses) :
          /\ RestKeyListed(RestResponses[e][1])
          /\ Len(RestResponses[e][2]) = 2
          /\ RestResponses[e][2][1][1] = 201
          /\ RestResponses[e][2][2][1] = 200
          /\ SamplesWith(RequestFamily("rest", "responses_total"),
                         RestLabels(RestResponses[e][1], 201)) # {}
          /\ SamplesWith(RequestFamily("rest", "responses_avg_duration_seconds"),
                         RestLabels(RestResponses[e][1], 201)) = {}
          /\ SamplesWith(RequestFamily("rest", "responses_avg_duration_seconds"),
                         RestLabels(RestResponses[e][1], 200)) # {}

\* The samples of the whole output that carry a method label and an endpoint label which
\* spell this REST key.
RestSamplesOf(key) ==
    UNION {{<<i, k>> : k \in {n \in 1..Len(metrics[i].metric) :
                                 /\ Len(metrics[i].metric[n].label) = 3
                                 /\ metrics[i].metric[n].label[1][1] = "method"
                                 /\ metrics[i].metric[n].label[1][2] \o Space
                                        \o metrics[i].metric[n].label[2][2] = key}} :
              i \in 1..Len(metrics)}

\* The samples of the whole output that carry this gRPC method as their only label.
GrpcSamplesOf(key) ==
    UNION {{<<i, k>> : k \in {n \in 1..Len(metrics[i].metric) :
                                 /\ Len(metrics[i].metric[n].label) = 1
                                 /\ metrics[i].metric[n].label[1][1] = "endpoint"
                                 /\ metrics[i].metric[n].label[1][2] = key}} :
              i \in 1..Len(metrics)}

\* Every sample of the output that is labelled with an endpoint belongs to a whitelisted
\* key of the snapshot.
NoStrayEndpointSample ==
    \A i \in 1..Len(metrics) : \A n \in 1..Len(metrics[i].metric) :
        LET label == metrics[i].metric[n].label
        IN  /\ (Len(label) = 3 /\ label[1][1] = "method") =>
                   \E e \in 1..Len(RestResponses) :
                       /\ RestKeyListed(RestResponses[e][1])
                       /\ RestResponses[e][1] = label[1][2] \o Space \o label[2][2]
            /\ (Len(label) = 1 /\ label[1][1] = "endpoint") =>
                   \E e \in 1..Len(GrpcResponses) :
                       /\ Listed(GRPC_ENDPOINT_WHITELIST, GrpcResponses[e][1])
                       /\ GrpcResponses[e][1] = label[1][2]

LexLeq(a, b) ==
    LET differ == {i \in 1..Min(Len(a), Len(b)) : a[i] # b[i]}
    IN  IF differ = {} THEN Len(a) <= Len(b)
        ELSE \E i \in differ : a[i] < b[i] /\ \A j \in differ : i <= j

SortedList(list) == \A i \in 1..(Len(list) - 1) : LexLeq(list[i], list[i + 1])

RestWhitelistSorted == SortedList(REST_ENDPOINT_WHITELIST)

GrpcWhitelistSorted == SortedList(GRPC_ENDPOINT_WHITELIST)

\* The positions of the projection, before the first projector to after the last.
Positions ==
    {"app", "collections", "cluster", "requests", "hardware", "memory", "procfs", "done"}

\* C8: at every position of the projection, before and after each projector has run,
\* both endpoint whitelists are in ascending bytewise lexicographic order.
WhitelistsSorted ==
    pc \in Positions => RestWhitelistSorted /\ GrpcWhitelistSorted

\* Both whitelists have been searched and each lookup has found an entry.
WhitelistsSortedWitness ==
    /\ pc = "done"
    /\ FamilyIndexes(metrics, RequestFamily("rest", "responses_total")) # {}
    /\ FamilyIndexes(metrics, RequestFamily("grpc", "responses_total")) # {}

----------------------------------------------------------------------------
(* Properties of the hardware projector and of the counter families *)

HardwareData ==
    IF IsSome(telemetry.hardware) THEN telemetry.hardware[1].collection_data ELSE <<>>

\* The hardware families and the HardwareUsage field each one reports.
HardwareFields ==
    {<<"collection_hardware_metric_cpu", "cpu">>,
     <<"collection_hardware_metric_payload_io_read", "payload_io_read">>,
     <<"collection_hardware_metric_payload_io_write", "payload_io_write">>,
     <<"collection_hardware_metric_payload_index_io_read", "payload_index_io_read">>,
     <<"collection_hardware_metric_payload_index_io_write", "payload_index_io_write">>,
     <<"collection_hardware_metric_vector_io_read", "vector_io_read">>,
     <<"collection_hardware_metric_vector_io_write", "vector_io_write">>}

\* Positions in the output of the families that have a hardware name or hold a counter
\* sample labelled with a collection id.
HardwareIndexes ==
    {i \in 1..Len(metrics) :
        \/ \E pair \in HardwareFields : metrics[i].name = Named(pair[1])
        \/ \E n \in 1..Len(metrics[i].metric) :
              /\ metrics[i].metric[n].kind = "counter"
              /\ Len(metrics[i].metric[n].label) = 1
              /\ metrics[i].metric[n].label[1][1] = "id"}

\* C9: when the projection is done, the output holds no hardware family if the hardware
\* map is absent or empty; otherwise it holds exactly seven, one per HardwareUsage
\* counter, each of type COUNTER with exactly one sample per collection of the map,
\* labelled with the collection id and valued with that collection's counter.
HardwareSevenFamilies ==
    pc = "done" =>
        IF HardwareData = <<>> THEN HardwareIndexes = {}
        ELSE /\ Cardinality(HardwareIndexes) = 7
             /\ \A pair \in HardwareFields :
                   /\ Cardinality(FamilyIndexes(metrics, Named(pair[1]))) = 1
                   /\ \A i \in FamilyIndexes(metrics, Named(pair[1])) :
                         /\ metrics[i].type = "COUNTER"
                         /\ Len(metrics[i].metric) = Len(HardwareData)
                         /\ \A c \in 1..Len(HardwareData) :
                               Cardinality({n \in 1..Len(metrics[i].metric) :
                                   metrics[i].metric[n] =
                                       [label |-> <<<<"id", HardwareData[c][1]>>>>,
                                        kind |-> "counter",
                                        value |-> HardwareData[c][2][pair[2]]]}) = 1

\* The hardware map is present and empty and nothing was emitted for it, or it holds two
\* collections and the index-write family reports both.
HardwareSevenFamiliesWitness ==
    /\ pc = "done"
    /\ IsSome(telemetry.hardware)
    /\ \/ HardwareData = <<>> /\ HardwareIndexes = {}
       \/ /\ Len(HardwareData) = 2
          /\ HardwareData[1][1] = "B"
          /\ \E i \in FamilyIndexes(metrics,
                          Named("collection_hardware_metric_payload_index_io_write")) :
                Len(metrics[i].metric) = 2 /\ metrics[i].metric[1].value = 50

\* C10: in every state of the projection, for every snapshot and prefix, no family of
\* type COUNTER in the output has an empty sample list.
NoEmptyCounterFamily ==
    \A i \in 1..Len(metrics) : metrics[i].type = "COUNTER" => metrics[i].metric # <<>>

\* Every request endpoint was filtered out and the hardware map is empty: the output has
\* counter families (the cluster term) but none for requests or hardware.
NoEmptyCounterFamilyWitness ==
    /\ pc = "done"
    /\ Len(RestResponses) = 1 /\ RestResponses[1][2] # <<>>
    /\ Len(GrpcResponses) = 1
    /\ IsSome(telemetry.hardware) /\ HardwareData = <<>>
    /\ \E i \in 1..Len(metrics) : metrics[i].type = "COUNTER"
    /\ \A i \in 1..Len(metrics) :
          metrics[i].type = "COUNTER" =>
              metrics[i].name \in {Named("cluster_term"), Named("cluster_commit")}

----------------------------------------------------------------------------
(* Properties of the whole projection *)

OptionalFields == {"cluster", "requests", "hardware", "memory"}

\* The names, under the prefix of the state, of the families of each optional domain.
DomainNames(d) ==
    IF d = "cluster"
    THEN {Named(base) : base \in {"cluster_enabled", "cluster_peers_total", "cluster_term",
                                  "cluster_commit", "cluster_pending_operations_total",
                                  "cluster_voter"}}
    ELSE IF d = "requests"
    THEN {RequestFamily(proto, base) :
             proto \in {"rest", "grpc"},
             base \in TimingBases \cup {"responses_total", "responses_fail_total"}}
    ELSE IF d = "hardware"
    THEN {Named(pair[1]) : pair \in HardwareFields}
    ELSE {Named(base) : base \in {"memory_active_bytes", "memory_allocated_bytes",
                                  "memory_metadata_bytes", "memory_resident_bytes",
                                  "memory_retained_bytes"}}

\* The values a present subtree is drawn from.
PresentValues(d) ==
    IF d = "cluster" THEN ClusterOptions \ {None}
    ELSE IF d = "requests" THEN RequestOptions \ {None}
    ELSE IF d = "hardware" THEN HardwareOptions \ {None}
    ELSE MemoryOptions \ {None}

\* The families of ms whose name is not in names, in their order.
RECURSIVE Without(_, _)
Without(ms, names) ==
    IF ms = <<>> THEN <<>>
    ELSE (IF ms[1].name \in names THEN <<>> ELSE <<ms[1]>>) \o Without(Tail(ms), names)

\* C11: when the projection is done and an optional subtree (cluster, requests, hardware
\* or memory) is absent, the output holds no family of that domain, and it is the output
\* for the same snapshot with that subtree present, whatever its value, with the families
\* of that domain taken out: the other families are the same and in the same order.
AbsentSubtreeFrame ==
    pc = "done" =>
        \A d \in OptionalFields :
            telemetry[d] = None =>
                /\ \A i \in 1..Len(metrics) : metrics[i].name \notin DomainNames(d)
                /\ \A v \in PresentValues(d) :
                      \E orders \in CollectionsOrders(telemetry.collections) :
                          Without(add_metrics([telemetry EXCEPT ![d] = v], prefix, orders,
                                              procfs[1]),
                                  DomainNames(d)) = metrics

\* The requests subtree is absent while cluster, hardware and memory are present and
\* have emitted their families.
AbsentSubtreeFrameWitness ==
    /\ pc = "done"
    /\ telemetry.requests = None
    /\ IsSome(telemetry.cluster) /\ IsSome(telemetry.hardware) /\ IsSome(telemetry.memory)
    /\ FamilyIndexes(metrics, Named("cluster_enabled")) # {}
    /\ FamilyIndexes(metrics, Named("collection_hardware_metric_cpu")) # {}
    /\ FamilyIndexes(metrics, Named("memory_active_bytes")) # {}
    /\ \A i \in 1..Len(metrics) : metrics[i].name \notin DomainNames("requests")

\* The base names of the families of the projection; the families of the duration
\* builder are named after their protocol.
BaseNames ==
    {"app_info", "app_status_recovery_mode"}
    \cup CollectionFamilyNames
    \cup {"cluster_enabled", "cluster_peers_total", "cluster_term", "cluster_commit",
          "cluster_pending_operations_total", "cluster_voter",
          "memory_active_bytes", "memory_allocated_bytes", "memory_metadata_bytes",
          "memory_resident_bytes", "memory_retained_bytes",
          "procfs_mmap_count", "procfs_current_fds", "procfs_soft_limit_fds",
          "procfs_hard_limit_fds", "procfs_minor_page_faults", "procfs_major_page_faults",
          "procfs_children_minor_page_faults", "procfs_children_major_page_faults"}
    \cup {pair[1] : pair \in HardwareFields}
    \cup {proto \o "_" \o base :
             proto \in {"rest", "grpc"},
             base \in TimingBases \cup {"responses_total", "responses_fail_total"}}

\* C12: when the projection is done, the name of every family of the output is the
\* prefix of the state, if any, followed with no separator by the name the same family
\* has in the output for the same snapshot without a prefix, and a name produced without
\* a prefix is a base name.
PrefixIsPlainConcatenation ==
    pc = "done" =>
        \E orders \in CollectionsOrders(telemetry.collections) :
            LET bare == add_metrics(telemetry, None, orders, procfs[1])
            IN  /\ Len(bare) = Len(metrics)
                /\ \A i \in 1..Len(metrics) :
                      /\ metrics[i].name =
                             IF IsSome(prefix) THEN prefix[1] \o bare[i].name
                             ELSE bare[i].name
                      /\ bare[i].name \in BaseNames

\* The procfs gauges in the order they are pushed, each with the ProcFsMetrics field it
\* reports.
ProcFsGauges ==
    <<<<"procfs_mmap_count", "mmap_count">>,
      <<"procfs_current_fds", "open_fds">>,
      <<"procfs_soft_limit_fds", "max_fds_soft">>,
      <<"procfs_hard_limit_fds", "max_fds_hard">>,
      <<"procfs_minor_page_faults", "minor_page_faults">>,
      <<"procfs_major_page_faults", "major_page_faults">>,
      <<"procfs_children_minor_page_faults", "minor_children_page_faults">>,
      <<"procfs_children_major_page_faults", "major_children_page_faults">>>>

ProcFsNames == {Named(ProcFsGauges[k][1]) : k \in 1..Len(ProcFsGauges)}

\* C13: when the projection is done after ProcFsMetrics::collect() failed, the output is
\* the output of a successful run on the same snapshot without its last eight families,
\* none of which that remain is a procfs gauge; after a success the output is those same
\* families followed by exactly the eight procfs gauges, each with one unlabeled sample
\* valued with its statistic.
ProcFsFailureSkipped ==
    pc = "done" =>
        \E orders \in CollectionsOrders(telemetry.collections) :
            LET success == CHOOSE r \in ProcFsResults : r.ok
                full == add_metrics(telemetry, prefix, orders, success)
                others == SubSeq(full, 1, Len(full) - Len(ProcFsGauges))
            IN  /\ Len(full) >= Len(ProcFsGauges)
                /\ \A i \in 1..Len(others) : others[i].name \notin ProcFsNames
                /\ IF ~procfs[1].ok THEN metrics = others
                   ELSE /\ Len(metrics) = Len(others) + Len(ProcFsGauges)
                        /\ SubSeq(metrics, 1, Len(others)) = others
                        /\ \A k \in 1..Len(ProcFsGauges) :
                              LET family == metrics[Len(others) + k]
                              IN  /\ family.name = Named(ProcFsGauges[k][1])
                                  /\ family.type = "GAUGE"
                                  /\ family.metric =
                                         <<[label |-> <<>>, kind |-> "gauge",
                                            value |-> procfs[1].stats[ProcFsGauges[k][2]]]>>

\* collect() failed on a snapshot with every optional subtree present: the projection is
\* done, the memory families are the last of the output and no procfs gauge is in it.
ProcFsFailureSkippedWitness ==
    /\ pc = "done"
    /\ IsSome(procfs) /\ ~procfs[1].ok
    /\ IsSome(telemetry.cluster) /\ IsSome(telemetry.requests)
    /\ IsSome(telemetry.hardware) /\ IsSome(telemetry.memory)
    /\ metrics # <<>>
    /\ metrics[Len(metrics)].name = Named("memory_retained_bytes")
    /\ \A i \in 1..Len(metrics) : metrics[i].name \notin ProcFsNames

----------------------------------------------------------------------------
(* Properties of the application and cluster projectors *)

AppFeatures == telemetry.app.features

\* The recovery-mode flag is set: the features are present and say so.
RecoveryModeSet == IsSome(AppFeatures) /\ AppFeatures[1].recovery_mode

\* The output holds exactly one app_info family: a gauge with one sample of value 1
\* labelled with the name and the version of the snapshot.
AppInfoEmitted ==
    /\ Cardinality(FamilyIndexes(metrics, Named("app_info"))) = 1
    /\ \A i \in FamilyIndexes(metrics, Named("app_info")) :
          /\ metrics[i].type = "GAUGE"
          /\ metrics[i].metric =
                 <<[label |-> <<<<"name", telemetry.app.name>>,
                                <<"version", telemetry.app.version>>>>,
                    kind |-> "gauge", value |-> 1]>>

\* C14 as stated: once the application projector has run, the output begins with exactly
\* two families, app_info and app_status_recovery_mode, the second with one sample valued
\* 1 when the recovery-mode flag is set and 0 otherwise, for every snapshot.
AppTwoGauges ==
    pc # "app" =>
        /\ AppInfoEmitted
        /\ SingleGauge("app_status_recovery_mode", IF RecoveryModeSet THEN 1 ELSE 0)
        /\ pc = "collections" => Len(metrics) = 2

\* C14 amended: once the application projector has run, the output begins with app_info;
\* app_status_recovery_mode follows it, with one sample valued 1 when the flag is set and
\* 0 otherwise, exactly when the features of the snapshot are present, and the projector
\* has emitted nothing else.
AppGaugesWhenFeaturesPresent ==
    pc # "app" =>
        /\ AppInfoEmitted
        /\ metrics[1].name = Named("app_info")
        /\ IF IsSome(AppFeatures)
           THEN /\ SingleGauge("app_status_recovery_mode",
                               IF AppFeatures[1].recovery_mode THEN 1 ELSE 0)
                /\ metrics[2].name = Named("app_status_recovery_mode")
                /\ pc = "collections" => Len(metrics) = 2
           ELSE /\ FamilyIndexes(metrics, Named("app_status_recovery_mode")) = {}
                /\ pc = "collections" => Len(metrics) = 1

\* The application projector has just run on a snapshot without features and has emitted
\* app_info alone.
AppGaugesWhenFeaturesPresentWitness ==
    /\ pc = "collections"
    /\ AppFeatures = None
    /\ Len(metrics) = 1
    /\ metrics[1].name = Named("app_info")

\* The number of families of the output with this base name.
Emitted(base) == Cardinality(FamilyIndexes(metrics, Named(base)))

ClusterStatusPresent == IsSome(telemetry.cluster) /\ IsSome(telemetry.cluster[1].status)

ClusterPeerKnown == ClusterStatusPresent /\ IsSome(telemetry.cluster[1].status[1].peer_id)

PeerIdText == (1001 :> "1001")

\* C15: when the projection is done on a snapshot with a cluster subtree, cluster_enabled
\* is emitted once; cluster_peers_total and cluster_term are emitted, once each, exactly
\* when the status is present; cluster_commit, cluster_pending_operations_total and
\* cluster_voter are emitted, once each, exactly when the status is present and has a
\* peer id, all three or none, and the sample of cluster_commit is labelled with that id.
ClusterFamiliesByStatus ==
    (pc = "done" /\ IsSome(telemetry.cluster)) =>
        /\ Emitted("cluster_enabled") = 1
        /\ \A base \in {"cluster_peers_total", "cluster_term"} :
              Emitted(base) = IF ClusterStatusPresent THEN 1 ELSE 0
        /\ \A base \in {"cluster_commit", "cluster_pending_operations_total",
                        "cluster_voter"} :
              Emitted(base) = IF ClusterPeerKnown THEN 1 ELSE 0
        /\ \A i \in FamilyIndexes(metrics, Named("cluster_commit")) :
              /\ Len(metrics[i].metric) = 1
              /\ metrics[i].metric[1].label =
                     <<<<"peer_id", PeerIdText[telemetry.cluster[1].status[1].peer_id[1]]>>>>

\* The status is present without a peer id: the peer count and the term are emitted,
\* none of the three peer families is.
ClusterFamiliesByStatusWitness ==
    /\ pc = "done"
    /\ ClusterStatusPresent /\ ~ClusterPeerKnown
    /\ Emitted("cluster_term") = 1
    /\ Emitted("cluster_commit") = 0
    /\ Emitted("cluster_voter") = 0

----------------------------------------------------------------------------
(* Properties of the indexed-only-excluded counts *)

\* The indexed-only-excluded map of shard j of entry i: empty when the shard has no local
\* detail or the detail has no map.
ExcludedMap(i, j) ==
    LET shard == ShardsIn(Entries, i)[j]
    IN  IF shard.local = <<>> THEN <<>>
        ELSE IF shard.local[1].indexed_only_excluded_vectors = <<>> THEN <<>>
        ELSE shard.local[1].indexed_only_excluded_vectors[1]

\* The vector names in the maps of the shards of entry i.
ExcludedNames(i) ==
    UNION {{ExcludedMap(i, j)[k][1] : k \in 1..Len(ExcludedMap(i, j))} :
              j \in 1..Len(ShardsIn(Entries, i))}

\* The excluded counts of vector v over all shards of entry i, summed.
ExcludedTotal(i, v) ==
    SumSeq([j \in 1..Len(ShardsIn(Entries, i)) |->
               SumSeq([k \in 1..Len(ExcludedMap(i, j)) |->
                          IF ExcludedMap(i, j)[k][1] = v THEN ExcludedMap(i, j)[k][2]
                          ELSE 0])])

\* The pairs <<entry, vector>> that have a sample.
ExcludedPairs == UNION {{<<i, v>> : v \in ExcludedNames(i)} : i \in FullIn(Entries)}

\* C16: when the projection is done, the collection_indexed_only_excluded_points family
\* is absent if no shard of a Full collection has a vector in its excluded map; otherwise
\* it is emitted once and its samples are, one each, those of the Full collections and
\* the vector names in the maps of their shards, labelled (id, vector) and valued with
\* the sum of that vector's counts over the shards of that collection alone.
ExcludedPointsPerCollection ==
    pc = "done" =>
        IF ExcludedPairs = {}
        THEN Emitted("collection_indexed_only_excluded_points") = 0
        ELSE /\ Emitted("collection_indexed_only_excluded_points") = 1
             /\ \A f \in FamilyIndexes(metrics,
                                       Named("collection_indexed_only_excluded_points")) :
                   /\ metrics[f].type = "GAUGE"
                   /\ Len(metrics[f].metric) = Cardinality(ExcludedPairs)
                   /\ \A pair \in ExcludedPairs :
                         \E n \in 1..Len(metrics[f].metric) :
                             metrics[f].metric[n] =
                                 [label |-> <<<<"id", Entries[pair[1]][1].id>>,
                                              <<"vector", pair[2]>>>>,
                                  kind |-> "gauge",
                                  value |-> ExcludedTotal(pair[1], pair[2])]

\* One collection has two shards that both exclude points of the same vector, and the
\* sample of that vector reports the sum of the two counts.
ExcludedPointsPerCollectionWitness ==
    /\ pc = "done"
    /\ \E pair \in ExcludedPairs :
          /\ Len(ShardsIn(Entries, pair[1])) = 2
          /\ pair[2] \in {ExcludedMap(pair[1], 1)[k][1] :
                             k \in 1..Len(ExcludedMap(pair[1], 1))}
          /\ pair[2] \in {ExcludedMap(pair[1], 2)[k][1] :
                             k \in 1..Len(ExcludedMap(pair[1], 2))}
          /\ ExcludedTotal(pair[1], pair[2]) = 6
          /\ \E f \in FamilyIndexes(metrics,
                                    Named("collection_indexed_only_excluded_points")) :
                \E n \in 1..Len(metrics[f].metric) :
                    /\ metrics[f].metric[n].label[2] = <<"vector", pair[2]>>
                    /\ metrics[f].metric[n].value = 6

----------------------------------------------------------------------------
(* Properties of the duration builder *)

\* Positions <<family, sample>> of all samples of the families with this name.
SamplePositions(name) ==
    UNION {{<<i, n>> : n \in 1..Len(metrics[i].metric)} : i \in FamilyIndexes(metrics, name)}

\* The builder is called once for each status record <<entry, record>> of a whitelisted
\* REST key, and once for each whitelisted gRPC method.
RestAddCalls ==
    UNION {{<<e, r>> : r \in 1..Len(RestResponses[e][2])} :
              e \in {k \in 1..Len(RestResponses) : RestKeyListed(RestResponses[k][1])}}

RestTimedCalls ==
    {call \in RestAddCalls : RestResponses[call[1]][2][call[2]][1] = REST_TIMINGS_FOR_STATUS}

GrpcAddCalls ==
    {e \in 1..Len(GrpcResponses) : Listed(GRPC_ENDPOINT_WHITELIST, GrpcResponses[e][1])}

GrpcLabels(key) == <<<<"endpoint", key>>>>

FailCount(stats) == IF stats.fail_count = <<>> THEN 0 ELSE stats.fail_count[1]

\* The samples at these positions are all this counter.
AllCounter(positions, labels, value) ==
    \A at \in positions :
        metrics[at[1]].metric[at[2]] = [label |-> labels, kind |-> "counter", value |-> value]

\* C17: when the projection is done, each call of the duration builder has left one
\* total sample valued with the record's count and one fail sample valued with its fail
\* count, or 0 when that is absent; the total and fail families have as many samples as
\* there were calls, each of the four timing families has as many as there were calls
\* with timings, and for gRPC all six families have one sample per whitelisted method.
BuilderAccumulatorsAligned ==
    pc = "done" =>
        /\ Cardinality(SamplePositions(RequestFamily("rest", "responses_total")))
               = Cardinality(RestAddCalls)
        /\ Cardinality(SamplePositions(RequestFamily("rest", "responses_fail_total")))
               = Cardinality(RestAddCalls)
        /\ \A base \in TimingBases :
              Cardinality(SamplePositions(RequestFamily("rest", base)))
                  = Cardinality(RestTimedCalls)
        /\ \A base \in TimingBases \cup {"responses_total", "responses_fail_total"} :
              Cardinality(SamplePositions(RequestFamily("grpc", base)))
                  = Cardinality(GrpcAddCalls)
        /\ \A call \in RestAddCalls :
              LET key == RestResponses[call[1]][1]
                  record == RestResponses[call[1]][2][call[2]]
                  labels == RestLabels(key, record[1])
                  total == SamplesWith(RequestFamily("rest", "responses_total"), labels)
                  fail == SamplesWith(RequestFamily("rest", "responses_fail_total"), labels)
              IN  /\ Cardinality(total) = 1
                  /\ AllCounter(total, labels, record[2].count)
                  /\ Cardinality(fail) = 1
                  /\ AllCounter(fail, labels, FailCount(record[2]))
        /\ \A e \in GrpcAddCalls :
              LET labels == GrpcLabels(GrpcResponses[e][1])
                  total == SamplesWith(RequestFamily("grpc", "responses_total"), labels)
                  fail == SamplesWith(RequestFamily("grpc", "responses_fail_total"), labels)
              IN  /\ Cardinality(total) = 1
                  /\ AllCounter(total, labels, GrpcResponses[e][2].count)
                  /\ Cardinality(fail) = 1
                  /\ AllCounter(fail, labels, FailCount(GrpcResponses[e][2]))

\* A whitelisted REST endpoint has a record without a fail count and a record with 201:
\* the record without a fail count has a fail sample of 0, and the timing families are
\* shorter than the total family; a whitelisted gRPC method fills all six families.
BuilderAccumulatorsAlignedWitness ==
    /\ pc = "done"
    /\ \E call \in RestAddCalls :
          LET record == RestResponses[call[1]][2][call[2]]
          IN  /\ record[2].fail_count = <<>>
              /\ \E at \in SamplesWith(RequestFamily("rest", "responses_fail_total"),
                                       RestLabels(RestResponses[call[1]][1], record[1])) :
                    metrics[at[1]].metric[at[2]].value = 0
    /\ Cardinality(RestTimedCalls) = 1
    /\ Cardinality(SamplePositions(RequestFamily("rest", "responses_total"))) = 2
    /\ Cardinality(SamplePositions(RequestFamily("rest", "responses_max_duration_seconds"))) = 1
    /\ GrpcAddCalls # {}
    /\ Cardinality(SamplePositions(RequestFamily("grpc", "responses_duration_seconds")))
           = Cardinality(GrpcAddCalls)

----------------------------------------------------------------------------
(* Properties of the duration histogram *)

\* The records projected with timings, each with the name of its histogram family and
\* the labels of its samples.
TimedRecords ==
    {[name |-> RequestFamily("rest", "responses_duration_seconds"),
      labels |-> RestLabels(RestResponses[call[1]][1], REST_TIMINGS_FOR_STATUS),
      stats |-> RestResponses[call[1]][2][call[2]][2]] : call \in RestTimedCalls}
    \cup
    {[name |-> RequestFamily("grpc", "responses_duration_seconds"),
      labels |-> GrpcLabels(GrpcResponses[e][1]),
      stats |-> GrpcResponses[e][2]] : e \in GrpcAddCalls}

TotalMicros(stats) ==
    IF stats.total_duration_micros = <<>> THEN 0 ELSE stats.total_duration_micros[1]

\* The sample is the histogram of these statistics: same count, the source buckets in
\* the source order with their cumulative counts, bounds and sum in seconds.
HistogramOf(sample, stats) ==
    /\ sample.kind = "histogram"
    /\ sample.sample_count = stats.count
    /\ sample.sample_sum = [num |-> TotalMicros(stats), den |-> 1000000]
    /\ Len(sample.bucket) = Len(stats.duration_micros_histogram)
    /\ \A i \in 1..Len(stats.duration_micros_histogram) :
          /\ sample.bucket[i].cumulative_count = stats.duration_micros_histogram[i][2]
          /\ sample.bucket[i].upper_bound =
                 [num |-> stats.duration_micros_histogram[i][1], den |-> 1000000]

\* C18: when the projection is done, every record projected with timings has exactly one
\* histogram sample, whose sample count is the record's count, whose buckets are as many
\* as the source buckets, in the same order and with the same cumulative counts, and
\* whose bounds and sum are the source's microseconds over 1,000,000, the sum being 0
\* when the total duration is absent.
HistogramKeepsBuckets ==
    pc = "done" =>
        \A rec \in TimedRecords :
            /\ Cardinality(SamplesWith(rec.name, rec.labels)) = 1
            /\ \A at \in SamplesWith(rec.name, rec.labels) :
                  HistogramOf(metrics[at[1]].metric[at[2]], rec.stats)

\* One record with two buckets and a total duration, and one with no bucket and no total
\* duration, have both been projected with timings.
HistogramKeepsBucketsWitness ==
    /\ pc = "done"
    /\ \E rec \in TimedRecords :
          /\ Len(rec.stats.duration_micros_histogram) = 2
          /\ rec.stats.duration_micros_histogram[1] # rec.stats.duration_micros_histogram[2]
          /\ \E at \in SamplesWith(rec.name, rec.labels) :
                /\ Len(metrics[at[1]].metric[at[2]].bucket) = 2
                /\ metrics[at[1]].metric[at[2]].bucket[2].cumulative_count = 7
                /\ metrics[at[1]].metric[at[2]].sample_sum.num = 17500000
    /\ \E rec \in TimedRecords :
          /\ rec.stats.total_duration_micros = <<>>
          /\ \E at \in SamplesWith(rec.name, rec.labels) :
                /\ metrics[at[1]].metric[at[2]].bucket = <<>>
                /\ metrics[at[1]].metric[at[2]].sample_count = 5
                /\ metrics[at[1]].metric[at[2]].sample_sum.num = 0

====
